---------------------------- MODULE Spec2Model ----------------------------
(***************************************************************************)
(* A model of MidiInterface (src/src/MIDILite.h, src/src/MIDI.hpp): the    *)
(* encoder (send, sendCommon, sendRealTime, the RPN/NRPN frames), the      *)
(* incremental parser (parse), the read cycle (read) with its active-      *)
(* sensing watchdog, and the input filter.                                 *)
(*                                                                         *)
(* Every method is a function from an interface record to an interface     *)
(* record, written statement by statement after the C++ body; an action    *)
(* applies one public method to the current state.  Bytes are 0..255,      *)
(* MidiType and StatusByte values are their byte codes, and unsigned long  *)
(* times are 32-bit values kept as <<high 16 bits, low 16 bits>>.          *)
(***************************************************************************)
EXTENDS Integers, Sequences, FiniteSets, TLC

(***************************************************************************)
(* MidiType (midi_Defs.h)                                                  *)
(***************************************************************************)
InvalidType == 0
NoteOff == 128
NoteOn == 144
AfterTouchPoly == 160
ControlChange == 176
ProgramChange == 192
AfterTouchChannel == 208
PitchBend == 224
SystemExclusiveStart == 240
TimeCodeQuarterFrame == 241
SongPosition == 242
SongSelect == 243
Undefined_F4 == 244
Undefined_F5 == 245
TuneRequest == 246
SystemExclusiveEnd == 247
Clock == 248
Tick == 249
Start == 250
Continue == 251
Stop == 252
Undefined_FD == 253
ActiveSensing == 254
SystemReset == 255

(***************************************************************************)
(* Channels, control-change numbers, error bits, timeout (midi_Defs.h)     *)
(***************************************************************************)
MIDI_CHANNEL_OMNI == 0
MIDI_CHANNEL_OFF == 17
MIDI_PITCHBEND_MIN == -8192
MIDI_PITCHBEND_MAX == 8191
DataEntryMSB == 6
DataEntryLSB == 38
DataIncrement == 96
DataDecrement == 97
NRPNLSB == 98
NRPNMSB == 99
RPNLSB == 100
RPNMSB == 101
ErrorParse == 0
ErrorActiveSensingTimeout == 1
ActiveSensingTimeout == 2000

(***************************************************************************)
(* The sentinel of mCurrentRpnNumber / mCurrentNrpnNumber: 0xffff          *)
(***************************************************************************)
NoParameterNumber == 65535

(***************************************************************************)
(* Bounds of the model                                                     *)
(***************************************************************************)
MaxRx == 2
MaxTx == 1

(***************************************************************************)
(* Machine arithmetic                                                      *)
(***************************************************************************)
RECURSIVE BitAnd(_, _)
BitAnd(a, b) ==
    IF a = 0 \/ b = 0 THEN 0
    ELSE (IF a % 2 = 1 /\ b % 2 = 1 THEN 1 ELSE 0) + 2 * BitAnd(a \div 2, b \div 2)

RECURSIVE BitOr(_, _)
BitOr(a, b) ==
    IF a = 0 THEN b
    ELSE IF b = 0 THEN a
    ELSE (IF a % 2 = 1 \/ b % 2 = 1 THEN 1 ELSE 0) + 2 * BitOr(a \div 2, b \div 2)

RECURSIVE Pow2(_)
Pow2(n) == IF n = 0 THEN 1 ELSE 2 * Pow2(n - 1)

\* x |= 1 << n
SetBit(x, n) == BitOr(x, Pow2(n))
\* x &= ~(1 << n)
ClearBit(x, n) == IF (x \div Pow2(n)) % 2 = 1 THEN x - Pow2(n) ELSE x
\* x & (1 << n)
TestBit(x, n) == (x \div Pow2(n)) % 2 = 1

\* unsigned long, 32 bits, as <<high half, low half>>
U32(hi, lo) == <<hi, lo>>
U32Zero == <<0, 0>>
U32OfNat(n) == <<(n \div 65536) % 65536, n % 65536>>
U32Add(a, b) ==
    LET lo == a[2] + b[2]
    IN  <<(a[1] + b[1] + lo \div 65536) % 65536, lo % 65536>>
U32Sub(a, b) ==
    LET lo == a[2] - b[2]
        borrow == IF lo < 0 THEN 1 ELSE 0
    IN  <<(a[1] - b[1] - borrow + 65536) % 65536, (lo + 65536) % 65536>>
U32Less(a, b) == a[1] < b[1] \/ (a[1] = b[1] /\ a[2] < b[2])

(***************************************************************************)
(* State: the fields of MidiInterface, the transport and the clock it is   *)
(* bound to, the compile-time Settings, and a record of the last call.     *)
(***************************************************************************)
VARIABLES
    Settings,                        \* the _Settings template argument
    mInputChannel,
    mRunningStatus_RX,
    mRunningStatus_TX,
    mPendingMessage,                 \* byte[3], as a sequence indexed 1..3
    mPendingMessageExpectedLength,
    mPendingMessageIndex,
    mCurrentRpnNumber,
    mCurrentNrpnNumber,
    mMessage,
    mLastMessageSentTime,
    mLastMessageReceivedTime,
    mSenderActiveSensingPeriodicity,
    mReceiverActiveSensingActivated,
    mLastError,
    rx,                              \* mTransport: bytes waiting to be read
    tx,                              \* mTransport: bytes written, not yet taken by the wire
    now,                             \* Platform::now()
    call,                            \* the last method called, its arguments and outcome
    stream,                          \* the bytes that have arrived at the transport
    got,                             \* the messages read() has reported
    sent                             \* the encoder calls whose bytes the wire has not taken away

vars == <<Settings, mInputChannel, mRunningStatus_RX, mRunningStatus_TX,
          mPendingMessage, mPendingMessageExpectedLength, mPendingMessageIndex,
          mCurrentRpnNumber, mCurrentNrpnNumber, mMessage, mLastMessageSentTime,
          mLastMessageReceivedTime, mSenderActiveSensingPeriodicity,
          mReceiverActiveSensingActivated, mLastError, rx, tx, now, call,
          stream, got, sent>>

\* The interface, its transport and the clock as one record; ret, parsed,
\* consumed, written and parseError describe the call in progress (its return
\* value, whether its parse() returned true, the number of bytes it took from
\* the transport, the bytes it wrote to it, whether it set the ErrorParse bit),
\* and pendingOverrun tells whether it stored outside mPendingMessage[0..2].
Self ==
    [ Settings                        |-> Settings,
      mInputChannel                   |-> mInputChannel,
      mRunningStatus_RX               |-> mRunningStatus_RX,
      mRunningStatus_TX               |-> mRunningStatus_TX,
      mPendingMessage                 |-> mPendingMessage,
      mPendingMessageExpectedLength   |-> mPendingMessageExpectedLength,
      mPendingMessageIndex            |-> mPendingMessageIndex,
      mCurrentRpnNumber               |-> mCurrentRpnNumber,
      mCurrentNrpnNumber              |-> mCurrentNrpnNumber,
      mMessage                        |-> mMessage,
      mLastMessageSentTime            |-> mLastMessageSentTime,
      mLastMessageReceivedTime        |-> mLastMessageReceivedTime,
      mSenderActiveSensingPeriodicity |-> mSenderActiveSensingPeriodicity,
      mReceiverActiveSensingActivated |-> mReceiverActiveSensingActivated,
      mLastError                      |-> mLastError,
      rx                              |-> rx,
      tx                              |-> tx,
      now                             |-> now,
      ret                             |-> FALSE,
      parsed                          |-> FALSE,
      consumed                        |-> 0,
      written                         |-> <<>>,
      parseError                      |-> FALSE,
      pendingOverrun                  |-> FALSE ]

\* The outcome of a call becomes the next state.
Commit(s, op, args) ==
    /\ mInputChannel' = s.mInputChannel
    /\ mRunningStatus_RX' = s.mRunningStatus_RX
    /\ mRunningStatus_TX' = s.mRunningStatus_TX
    /\ mPendingMessage' = s.mPendingMessage
    /\ mPendingMessageExpectedLength' = s.mPendingMessageExpectedLength
    /\ mPendingMessageIndex' = s.mPendingMessageIndex
    /\ mCurrentRpnNumber' = s.mCurrentRpnNumber
    /\ mCurrentNrpnNumber' = s.mCurrentNrpnNumber
    /\ mMessage' = s.mMessage
    /\ mLastMessageSentTime' = s.mLastMessageSentTime
    /\ mLastMessageReceivedTime' = s.mLastMessageReceivedTime
    /\ mSenderActiveSensingPeriodicity' = s.mSenderActiveSensingPeriodicity
    /\ mReceiverActiveSensingActivated' = s.mReceiverActiveSensingActivated
    /\ mLastError' = s.mLastError
    /\ rx' = s.rx
    /\ tx' = s.tx
    /\ call' = [ op |-> op, args |-> args, ret |-> s.ret, parsed |-> s.parsed,
                 consumed |-> s.consumed, written |-> s.written,
                 parseError |-> s.parseError, pendingOverrun |-> s.pendingOverrun ]
    /\ got' = IF op = "begin" THEN <<>>
              ELSE IF op = "read" /\ s.ret THEN Append(got, s.mMessage)
              ELSE got
    /\ sent' = IF op = "begin" THEN <<>>
               ELSE IF op = "read" THEN sent
               ELSE Append(sent, [ op |-> op, args |-> args, written |-> s.written ])
    /\ UNCHANGED <<Settings, now, stream>>

(***************************************************************************)
(* Transport (serialMIDI.h) and Message (midi_Message.h)                   *)
(***************************************************************************)
\* mTransport.beginTransmission(inType): the serial transport always accepts
beginTransmission(inType) == TRUE

\* mTransport.write(inByte)
write(s, inByte) ==
    [s EXCEPT !.tx = Append(@, inByte), !.written = Append(@, inByte)]

\* Message(): the default-constructed mMessage
EmptyMessage ==
    [ type |-> InvalidType, channel |-> 0, data1 |-> 0, data2 |-> 0,
      length |-> 0, valid |-> FALSE ]

(***************************************************************************)
(* Static helpers                                                          *)
(***************************************************************************)
getTypeFromStatusByte(inStatus) ==
    IF \/ inStatus < 128
       \/ inStatus = Undefined_F4
       \/ inStatus = Undefined_F5
       \/ inStatus = Undefined_FD
    THEN InvalidType
    ELSE IF inStatus < 240 THEN BitAnd(inStatus, 240)
    ELSE inStatus

getChannelFromStatusByte(inStatus) == BitAnd(inStatus, 15) + 1

isChannelMessage(inType) ==
    \/ inType = NoteOff
    \/ inType = NoteOn
    \/ inType = ControlChange
    \/ inType = AfterTouchPoly
    \/ inType = AfterTouchChannel
    \/ inType = PitchBend
    \/ inType = ProgramChange

\* getStatus that leaves the channel out
getStatus_DropsChannel(inType, inChannel) == inType

\* (byte)inType | ((inChannel - 1) & 0x0f); inChannel - 1 is an int, and
\* -1 & 0x0f is 15
getStatus(inType, inChannel) ==
    BitOr(inType, (inChannel + 15) % 16)

updateLastSentTime(s) ==
    IF s.Settings.UseSenderActiveSensing /\ s.mSenderActiveSensingPeriodicity # U32Zero
    THEN [s EXCEPT !.mLastMessageSentTime = s.now]
    ELSE s

resetInput(s) ==
    [s EXCEPT !.mPendingMessageIndex = 0,
              !.mPendingMessageExpectedLength = 0,
              !.mRunningStatus_RX = InvalidType]

(***************************************************************************)
(* Output                                                                  *)
(***************************************************************************)
\* sendRealTime(MidiType inType)
sendRealTime(s, inType) ==
    IF inType \in {Clock, Start, Stop, Continue, ActiveSensing, SystemReset}
    THEN IF beginTransmission(inType)
         THEN updateLastSentTime(write(s, inType))
         ELSE s
    ELSE s

\* the convenience senders of MIDILite.h
sendClock(s) == sendRealTime(s, Clock)
sendStart(s) == sendRealTime(s, Start)
sendStop(s) == sendRealTime(s, Stop)
sendTick(s) == sendRealTime(s, Tick)
sendContinue(s) == sendRealTime(s, Continue)
sendActiveSensing(s) == sendRealTime(s, ActiveSensing)
sendSystemReset(s) == sendRealTime(s, SystemReset)

\* writeStatus with the running status never consulted
writeStatus_Always(s, status) ==
    write([s EXCEPT !.mRunningStatus_TX = status], status)

\* send(), the status byte: written when running status is off or names another status
writeStatus(s, status) ==
    IF s.Settings.UseRunningStatus
    THEN IF s.mRunningStatus_TX # status
         THEN write([s EXCEPT !.mRunningStatus_TX = status], status)
         ELSE s
    ELSE write(s, status)

\* send(MidiType inType, DataByte inData1, DataByte inData2, Channel inChannel)
send(s, inType, inData1, inData2, inChannel) ==
    IF inType <= PitchBend
    THEN IF \/ inChannel >= MIDI_CHANNEL_OFF
            \/ inChannel = MIDI_CHANNEL_OMNI
            \/ inType < 128
         THEN s
         ELSE LET data1 == BitAnd(inData1, 127)
                  data2 == BitAnd(inData2, 127)
                  status == getStatus(inType, inChannel)
              IN  IF beginTransmission(inType)
                  THEN LET s1 == writeStatus(s, status)
                           s2 == write(s1, data1)
                           s3 == IF inType # ProgramChange /\ inType # AfterTouchChannel
                                 THEN write(s2, data2)
                                 ELSE s2
                       IN  updateLastSentTime(s3)
                  ELSE s
    ELSE IF inType >= Clock /\ inType <= SystemReset
         THEN sendRealTime(s, inType)
         ELSE s

\* send(const MidiMessage& inMessage)
sendMessage(s, inMessage) ==
    IF ~inMessage.valid
    THEN s
    ELSE LET s1 == IF beginTransmission(inMessage.type)
                   THEN LET status == getStatus(inMessage.type, inMessage.channel)
                            w0 == write(s, status)
                            w1 == IF inMessage.length > 1 THEN write(w0, inMessage.data1) ELSE w0
                        IN  IF inMessage.length > 2 THEN write(w1, inMessage.data2) ELSE w1
                   ELSE s
         IN  updateLastSentTime(s1)

sendNoteOn(s, inNoteNumber, inVelocity, inChannel) ==
    send(s, NoteOn, inNoteNumber, inVelocity, inChannel)

sendNoteOff(s, inNoteNumber, inVelocity, inChannel) ==
    send(s, NoteOff, inNoteNumber, inVelocity, inChannel)

sendProgramChange(s, inProgramNumber, inChannel) ==
    send(s, ProgramChange, inProgramNumber, 0, inChannel)

sendControlChange(s, inControlNumber, inControlValue, inChannel) ==
    send(s, ControlChange, inControlNumber, inControlValue, inChannel)

\* sendPitchBend(int, Channel) that takes the value as the bend, unshifted
sendPitchBend_Unshifted(s, inPitchValue, inChannel) ==
    LET bend == inPitchValue % 65536
    IN  send(s, PitchBend, BitAnd(bend, 127), BitAnd(bend \div 128, 127), inChannel)

\* sendPitchBend(int inPitchValue, Channel inChannel); unsigned(...) is the
\* value modulo a power of two of at least 2^16, of which the low 14 bits are used
sendPitchBend(s, inPitchValue, inChannel) ==
    LET bend == (inPitchValue - MIDI_PITCHBEND_MIN) % 65536
    IN  send(s, PitchBend, BitAnd(bend, 127), BitAnd(bend \div 128, 127), inChannel)

\* sendCommon(MidiType inType, unsigned inData1); write() takes a byte
\* sendCommon that leaves the TX running status as it was
sendCommon_KeepsRunningStatus(s, inType, inData1) ==
    IF inType \notin {TimeCodeQuarterFrame, SongPosition, SongSelect, TuneRequest}
    THEN s
    ELSE LET w0 == write(s, inType)
             w1 == IF inType = TimeCodeQuarterFrame
                   THEN write(w0, inData1 % 256)
                   ELSE IF inType = SongPosition
                   THEN write(write(w0, BitAnd(inData1, 127)), BitAnd(inData1 \div 128, 127))
                   ELSE IF inType = SongSelect
                   THEN write(w0, BitAnd(inData1, 127))
                   ELSE w0
         IN  updateLastSentTime(w1)

sendCommon(s, inType, inData1) ==
    IF inType \notin {TimeCodeQuarterFrame, SongPosition, SongSelect, TuneRequest}
    THEN s
    ELSE LET s1 == IF beginTransmission(inType)
                   THEN LET w0 == write(s, inType)
                            w1 == IF inType = TimeCodeQuarterFrame
                                  THEN write(w0, inData1 % 256)
                                  ELSE IF inType = SongPosition
                                  THEN write(write(w0, BitAnd(inData1, 127)),
                                             BitAnd(inData1 \div 128, 127))
                                  ELSE IF inType = SongSelect
                                  THEN write(w0, BitAnd(inData1, 127))
                                  ELSE w0
                        IN  updateLastSentTime(w1)
                   ELSE s
         IN  IF s.Settings.UseRunningStatus
             THEN [s1 EXCEPT !.mRunningStatus_TX = InvalidType]
             ELSE s1

\* beginRpn that forgets the number it selected
beginRpn_Forgets(s, inNumber, inChannel) ==
    IF s.mCurrentRpnNumber # inNumber
    THEN sendControlChange(sendControlChange(s, RPNLSB, BitAnd(127, inNumber), inChannel),
                           RPNMSB, BitAnd(127, inNumber \div 128), inChannel)
    ELSE s

\* beginRpn(unsigned inNumber, Channel inChannel)
beginRpn(s, inNumber, inChannel) ==
    IF s.mCurrentRpnNumber # inNumber
    THEN LET numMsb == BitAnd(127, inNumber \div 128)
             numLsb == BitAnd(127, inNumber)
             s1 == sendControlChange(s, RPNLSB, numLsb, inChannel)
             s2 == sendControlChange(s1, RPNMSB, numMsb, inChannel)
         IN  [s2 EXCEPT !.mCurrentRpnNumber = inNumber]
    ELSE s

\* sendRpnValue(unsigned inValue, Channel inChannel)
sendRpnValue(s, inValue, inChannel) ==
    LET valMsb == BitAnd(127, inValue \div 128)
        valLsb == BitAnd(127, inValue)
        s1 == sendControlChange(s, DataEntryMSB, valMsb, inChannel)
    IN  sendControlChange(s1, DataEntryLSB, valLsb, inChannel)

\* endRpn that keeps the remembered number
endRpn_Remembers(s, inChannel) ==
    sendControlChange(sendControlChange(s, RPNLSB, 127, inChannel), RPNMSB, 127, inChannel)

\* endRpn(Channel inChannel)
endRpn(s, inChannel) ==
    LET s1 == sendControlChange(s, RPNLSB, 127, inChannel)
        s2 == sendControlChange(s1, RPNMSB, 127, inChannel)
    IN  [s2 EXCEPT !.mCurrentRpnNumber = NoParameterNumber]

\* beginNrpn(unsigned inNumber, Channel inChannel)
beginNrpn(s, inNumber, inChannel) ==
    IF s.mCurrentNrpnNumber # inNumber
    THEN LET numMsb == BitAnd(127, inNumber \div 128)
             numLsb == BitAnd(127, inNumber)
             s1 == sendControlChange(s, NRPNLSB, numLsb, inChannel)
             s2 == sendControlChange(s1, NRPNMSB, numMsb, inChannel)
         IN  [s2 EXCEPT !.mCurrentNrpnNumber = inNumber]
    ELSE s

\* sendNrpnValue(unsigned inValue, Channel inChannel)
sendNrpnValue(s, inValue, inChannel) ==
    LET valMsb == BitAnd(127, inValue \div 128)
        valLsb == BitAnd(127, inValue)
        s1 == sendControlChange(s, DataEntryMSB, valMsb, inChannel)
    IN  sendControlChange(s1, DataEntryLSB, valLsb, inChannel)

\* endNrpn(Channel inChannel)
endNrpn(s, inChannel) ==
    LET s1 == sendControlChange(s, NRPNLSB, 127, inChannel)
        s2 == sendControlChange(s1, NRPNMSB, 127, inChannel)
    IN  [s2 EXCEPT !.mCurrentNrpnNumber = NoParameterNumber]

(***************************************************************************)
(* Input: the parser                                                       *)
(***************************************************************************)
\* mPendingMessage[inIndex] = inByte
storePending(s, inIndex, inByte) ==
    IF inIndex > 2
    THEN [s EXCEPT !.pendingOverrun = TRUE]
    ELSE [s EXCEPT !.mPendingMessage[inIndex + 1] = inByte]

\* receptionComplete that waits for the index to reach the expected length
receptionComplete_AtExpectedLength(s) ==
    s.mPendingMessageExpectedLength > 0
        /\ s.mPendingMessageIndex >= s.mPendingMessageExpectedLength

\* mPendingMessageIndex >= (mPendingMessageExpectedLength - 1), an unsigned
\* compared with an int: -1 converts to the largest unsigned
receptionComplete(s) ==
    IF s.mPendingMessageExpectedLength - 1 < 0
    THEN FALSE
    ELSE s.mPendingMessageIndex >= s.mPendingMessageExpectedLength - 1

\* parseFailed with the reset of the running status left out
parseFailed_KeepsRunningStatus(s) ==
    [s EXCEPT !.mLastError = SetBit(@, ErrorParse),
              !.mPendingMessageIndex = 0,
              !.mPendingMessageExpectedLength = 0,
              !.ret = FALSE,
              !.parseError = TRUE]

\* mLastError |= 1UL << ErrorParse; resetInput(); return false
parseFailed(s) ==
    [resetInput([s EXCEPT !.mLastError = SetBit(@, ErrorParse)])
        EXCEPT !.ret = FALSE, !.parseError = TRUE]

\* prependRunningStatus with the running status never applied
prependRunningStatus_Ignored(s, extracted) == s

\* parse(), "Check for running status first": a data byte met in Idle while a
\* channel status is remembered is taken as the first data byte after it
prependRunningStatus(s, extracted) ==
    IF /\ isChannelMessage(getTypeFromStatusByte(s.mRunningStatus_RX))
       /\ extracted < 128
    THEN [storePending(storePending(s, 0, s.mRunningStatus_RX), 1, extracted)
             EXCEPT !.mPendingMessageIndex = 1]
    ELSE s

\* receiveOneByteMessage with the whole input reset, running status included
receiveOneByteMessage_ResetsInput(s, pendingType) ==
    [resetInput(s) EXCEPT !.mMessage.type = pendingType,
                          !.mMessage.channel = 0,
                          !.mMessage.data1 = 0,
                          !.mMessage.data2 = 0,
                          !.mMessage.valid = TRUE,
                          !.ret = TRUE]

\* parse(), "1 byte messages"
receiveOneByteMessage(s, pendingType) ==
    [s EXCEPT !.mMessage.type = pendingType,
              !.mMessage.channel = 0,
              !.mMessage.data1 = 0,
              !.mMessage.data2 = 0,
              !.mMessage.valid = TRUE,
              !.mPendingMessageIndex = 0,
              !.mPendingMessageExpectedLength = 0,
              !.ret = TRUE]

\* parse(), the length the switch on pendingType expects
expectedLength(pendingType) ==
    IF pendingType \in {ProgramChange, AfterTouchChannel, TimeCodeQuarterFrame, SongSelect}
    THEN 2
    ELSE 3

\* parse(), "Reception complete" in the branch of mPendingMessageIndex == 0
completeFromRunningStatus(s, pendingType) ==
    [s EXCEPT !.mMessage.type = pendingType,
              !.mMessage.channel = getChannelFromStatusByte(s.mPendingMessage[1]),
              !.mMessage.data1 = s.mPendingMessage[2],
              !.mMessage.data2 = 0,
              !.mMessage.length = 1,
              !.mPendingMessageIndex = 0,
              !.mPendingMessageExpectedLength = 0,
              !.mMessage.valid = TRUE,
              !.ret = TRUE]

\* receiveInterleavedRealTime dropping the message under way
receiveInterleavedRealTime_Resets(s, extracted) ==
    [s EXCEPT !.mMessage.type = extracted,
              !.mMessage.data1 = 0,
              !.mMessage.data2 = 0,
              !.mMessage.channel = 0,
              !.mMessage.length = 1,
              !.mMessage.valid = TRUE,
              !.mPendingMessageIndex = 0,
              !.mPendingMessageExpectedLength = 0,
              !.ret = TRUE]

\* parse(), an interleaved Real Time byte while a message is pending
receiveInterleavedRealTime(s, extracted) ==
    [s EXCEPT !.mMessage.type = extracted,
              !.mMessage.data1 = 0,
              !.mMessage.data2 = 0,
              !.mMessage.channel = 0,
              !.mMessage.length = 1,
              !.mMessage.valid = TRUE,
              !.ret = TRUE]

\* parse(), "Activate running status (if enabled for the received type)"
runningStatusAfter(s, inType) ==
    IF inType \in {NoteOff, NoteOn, AfterTouchPoly, ControlChange, ProgramChange,
                   AfterTouchChannel, PitchBend}
    THEN s.mPendingMessage[1]
    ELSE InvalidType

\* completePending that takes the channel from the status byte of every type
completePending_ChannelOfAnyStatus(s) ==
    LET type == getTypeFromStatusByte(s.mPendingMessage[1])
    IN  [s EXCEPT !.mMessage.type = type,
                  !.mMessage.channel = getChannelFromStatusByte(s.mPendingMessage[1]),
                  !.mMessage.data1 = s.mPendingMessage[2],
                  !.mMessage.data2 =
                      IF s.mPendingMessageExpectedLength = 3
                      THEN s.mPendingMessage[3] ELSE 0,
                  !.mPendingMessageIndex = 0,
                  !.mPendingMessageExpectedLength = 0,
                  !.mMessage.valid = TRUE,
                  !.mRunningStatus_RX = runningStatusAfter(s, type),
                  !.ret = TRUE]

\* parse(), the end of the message in the branch of mPendingMessageIndex != 0
completePending(s) ==
    LET type == getTypeFromStatusByte(s.mPendingMessage[1])
    IN  [s EXCEPT !.mMessage.type = type,
                  !.mMessage.channel =
                      IF isChannelMessage(type)
                      THEN getChannelFromStatusByte(s.mPendingMessage[1])
                      ELSE 0,
                  !.mMessage.data1 = s.mPendingMessage[2],
                  !.mMessage.data2 =
                      IF s.mPendingMessageExpectedLength = 3
                      THEN s.mPendingMessage[3] ELSE 0,
                  !.mPendingMessageIndex = 0,
                  !.mPendingMessageExpectedLength = 0,
                  !.mMessage.valid = TRUE,
                  !.mRunningStatus_RX = runningStatusAfter(s, type),
                  !.ret = TRUE]

RECURSIVE parse(_)

\* parseNext that goes on to the next byte whatever Use1ByteParsing says
parseNext_Always(s) == parse(s)

\* parseNext that, in single-byte mode, gives up the message under way
parseNext_ForgetsPending(s) ==
    IF s.Settings.Use1ByteParsing
    THEN [s EXCEPT !.ret = FALSE, !.mPendingMessageIndex = 0]
    ELSE parse(s)

\* return (Settings::Use1ByteParsing) ? false : parse()
parseNext(s) ==
    IF s.Settings.Use1ByteParsing THEN [s EXCEPT !.ret = FALSE] ELSE parse(s)

\* parse(), the branch of mPendingMessageIndex == 0
parseIdle(s, extracted) ==
    LET s1 == prependRunningStatus(storePending(s, 0, extracted), extracted)
        pendingType == getTypeFromStatusByte(s1.mPendingMessage[1])
    IN  IF pendingType \in {Start, Continue, Stop, Clock, Tick, ActiveSensing,
                            SystemReset, TuneRequest}
        THEN receiveOneByteMessage(s1, pendingType)
        ELSE IF pendingType \in {ProgramChange, AfterTouchChannel, TimeCodeQuarterFrame,
                                 SongSelect, NoteOn, NoteOff, ControlChange, PitchBend,
                                 AfterTouchPoly, SongPosition}
        THEN LET s2 == [s1 EXCEPT !.mPendingMessageExpectedLength =
                                      expectedLength(pendingType)]
             IN  IF receptionComplete(s2)
                 THEN completeFromRunningStatus(s2, pendingType)
                 ELSE parseNext([s2 EXCEPT !.mPendingMessageIndex = @ + 1])
        ELSE parseFailed(s1)

\* parse(), the branch of mPendingMessageIndex != 0
parseAccumulating(s, extracted) ==
    IF extracted >= 128 /\ extracted \in {Clock, Start, Tick, Continue, Stop,
                                          ActiveSensing, SystemReset}
    THEN receiveInterleavedRealTime(s, extracted)
    ELSE IF extracted >= 128 /\ extracted \in {SystemExclusiveStart, SystemExclusiveEnd}
    THEN parseFailed(s)
    ELSE LET s1 == storePending(s, s.mPendingMessageIndex, extracted)
         IN  IF receptionComplete(s1)
             THEN completePending(s1)
             ELSE parseNext([s1 EXCEPT !.mPendingMessageIndex = @ + 1])

\* parse() that leaves the ErrorParse bit as it finds it
parse_KeepsParseError(s) ==
    IF Len(s.rx) = 0
    THEN [s EXCEPT !.ret = FALSE]
    ELSE LET extracted == Head(s.rx)
             s1 == [s EXCEPT !.rx = Tail(@),
                             !.consumed = @ + 1]
         IN  IF extracted = Undefined_FD
             THEN parseNext(s1)
             ELSE IF s1.mPendingMessageIndex = 0
             THEN parseIdle(s1, extracted)
             ELSE parseAccumulating(s1, extracted)

\* parse() without "Ignore Undefined": 0xFD is handled like any other byte
parse_KeepsUndefined(s) ==
    IF Len(s.rx) = 0
    THEN [s EXCEPT !.ret = FALSE]
    ELSE LET extracted == Head(s.rx)
             s1 == [s EXCEPT !.mLastError = ClearBit(@, ErrorParse),
                             !.rx = Tail(@),
                             !.consumed = @ + 1]
         IN  IF s1.mPendingMessageIndex = 0
             THEN parseIdle(s1, extracted)
             ELSE parseAccumulating(s1, extracted)

\* bool parse()
parse(s) ==
    IF Len(s.rx) = 0
    THEN [s EXCEPT !.ret = FALSE]
    ELSE LET extracted == Head(s.rx)
             s1 == [s EXCEPT !.mLastError = ClearBit(@, ErrorParse),
                             !.rx = Tail(@),
                             !.consumed = @ + 1]
         IN  IF extracted = Undefined_FD
             THEN parseNext(s1)
             ELSE IF s1.mPendingMessageIndex = 0
             THEN parseIdle(s1, extracted)
             ELSE parseAccumulating(s1, extracted)

(***************************************************************************)
(* Input: the read cycle and the filter                                    *)
(***************************************************************************)
\* handleNullVelocityNoteOnAsNoteOff that does not look at the velocity
handleNullVelocityNoteOnAsNoteOff_AnyVelocity(s) ==
    IF /\ s.Settings.HandleNullVelocityNoteOnAsNoteOff
       /\ s.mMessage.type = NoteOn
    THEN [s EXCEPT !.mMessage.type = NoteOff]
    ELSE s

\* handleNullVelocityNoteOnAsNoteOff that renames the running status as well
handleNullVelocityNoteOnAsNoteOff_RenamesRunningStatus(s) ==
    IF /\ s.Settings.HandleNullVelocityNoteOnAsNoteOff
       /\ s.mMessage.type = NoteOn
       /\ s.mMessage.data2 = 0
    THEN [s EXCEPT !.mMessage.type = NoteOff,
                   !.mRunningStatus_RX = NoteOff + s.mMessage.channel - 1]
    ELSE s

handleNullVelocityNoteOnAsNoteOff(s) ==
    IF /\ s.Settings.HandleNullVelocityNoteOnAsNoteOff
       /\ s.mMessage.type = NoteOn
       /\ s.mMessage.data2 = 0
    THEN [s EXCEPT !.mMessage.type = NoteOff]
    ELSE s

\* inputFilter that lets every channel through
inputFilter_EveryChannel(s, inChannel) == TRUE

\* inputFilter that asks every message for the listening channel
inputFilter_EveryType(s, inChannel) ==
    \/ s.mMessage.channel = inChannel
    \/ inChannel = MIDI_CHANNEL_OMNI

inputFilter(s, inChannel) ==
    IF s.mMessage.type >= NoteOff /\ s.mMessage.type <= PitchBend
    THEN \/ s.mMessage.channel = inChannel
         \/ inChannel = MIDI_CHANNEL_OMNI
    ELSE TRUE

\* The watchdog with a heartbeat that is due as soon as the periodicity has
\* elapsed
readWatchdog_DueAtPeriodicity(s) ==
    LET s1 == IF /\ s.Settings.UseSenderActiveSensing
                 /\ U32Less(U32Zero, s.mSenderActiveSensingPeriodicity)
                 /\ ~U32Less(U32Sub(s.now, s.mLastMessageSentTime),
                             s.mSenderActiveSensingPeriodicity)
              THEN [sendActiveSensing(s) EXCEPT !.mLastMessageSentTime = s.now]
              ELSE s
    IN  IF /\ s.Settings.UseReceiverActiveSensing
           /\ s1.mReceiverActiveSensingActivated
           /\ U32Less(U32Add(s1.mLastMessageReceivedTime, U32OfNat(ActiveSensingTimeout)),
                      s1.now)
        THEN [s1 EXCEPT !.mReceiverActiveSensingActivated = FALSE,
                        !.mLastError = SetBit(@, ErrorActiveSensingTimeout)]
        ELSE s1

\* read(Channel inChannel), the watchdog run before parsing
readWatchdog(s) ==
    LET s1 == IF /\ s.Settings.UseSenderActiveSensing
                 /\ U32Less(U32Zero, s.mSenderActiveSensingPeriodicity)
                 /\ U32Less(s.mSenderActiveSensingPeriodicity,
                            U32Sub(s.now, s.mLastMessageSentTime))
              THEN [sendActiveSensing(s) EXCEPT !.mLastMessageSentTime = s.now]
              ELSE s
    IN  IF /\ s.Settings.UseReceiverActiveSensing
           /\ s1.mReceiverActiveSensingActivated
           /\ U32Less(U32Add(s1.mLastMessageReceivedTime, U32OfNat(ActiveSensingTimeout)),
                      s1.now)
        THEN [s1 EXCEPT !.mReceiverActiveSensingActivated = FALSE,
                        !.mLastError = SetBit(@, ErrorActiveSensingTimeout)]
        ELSE s1

\* read(Channel inChannel), what follows a successful parse()
readReceived(s, inChannel) ==
    LET s1 == IF s.Settings.UseReceiverActiveSensing /\ s.mMessage.type = ActiveSensing
              THEN [s EXCEPT !.mReceiverActiveSensingActivated = TRUE,
                             !.mLastError =
                                 IF TestBit(@, ErrorActiveSensingTimeout - 1)
                                 THEN ClearBit(@, ErrorActiveSensingTimeout)
                                 ELSE @]
              ELSE s
        s2 == IF s.Settings.UseReceiverActiveSensing /\ s1.mReceiverActiveSensingActivated
              THEN [s1 EXCEPT !.mLastMessageReceivedTime = s1.now]
              ELSE s1
        s3 == handleNullVelocityNoteOnAsNoteOff(s2)
    IN  [s3 EXCEPT !.ret = inputFilter(s3, inChannel)]

\* A read that parses before it looks at the channel
read_ParsesWhenOff(s, inChannel) ==
    LET s1 == readWatchdog(s)
        s2 == parse(s1)
    IN  IF inChannel >= MIDI_CHANNEL_OFF
        THEN [s2 EXCEPT !.ret = FALSE]
        ELSE IF ~s2.ret THEN s2 ELSE readReceived([s2 EXCEPT !.parsed = TRUE], inChannel)

\* bool read(Channel inChannel)
read(s, inChannel) ==
    LET s1 == readWatchdog(s)
    IN  IF inChannel >= MIDI_CHANNEL_OFF
        THEN [s1 EXCEPT !.ret = FALSE]
        ELSE LET s2 == parse(s1)
             IN  IF ~s2.ret THEN s2 ELSE readReceived([s2 EXCEPT !.parsed = TRUE], inChannel)

\* void begin(Channel inChannel)
begin(s, inChannel) ==
    [s EXCEPT !.mInputChannel = inChannel,
              !.mRunningStatus_TX = InvalidType,
              !.mRunningStatus_RX = InvalidType,
              !.mPendingMessageIndex = 0,
              !.mPendingMessageExpectedLength = 0,
              !.mCurrentRpnNumber = NoParameterNumber,
              !.mCurrentNrpnNumber = NoParameterNumber,
              !.mLastMessageSentTime = s.now,
              !.mMessage = EmptyMessage]

(***************************************************************************)
(* Construction                                                            *)
(***************************************************************************)
\* The Settings a build may choose (midi_Settings.h)
SettingsOf(runningStatus, oneByte, nullVelocity, senderSensing, receiverSensing, periodicity) ==
    [ UseRunningStatus                  |-> runningStatus,
      Use1ByteParsing                   |-> oneByte,
      HandleNullVelocityNoteOnAsNoteOff |-> nullVelocity,
      UseSenderActiveSensing            |-> senderSensing,
      UseReceiverActiveSensing          |-> receiverSensing,
      SenderActiveSensingPeriodicity    |-> periodicity ]

\* What the uninitialised mPendingMessage may hold after construction
IndeterminatePending == {<<0, 0, 0>>, <<255, 255, 255>>}

\* MidiInterface(Transport&) with the given Settings, at clock time inNow
Constructed(inSettings, inNow) ==
    /\ Settings = inSettings
    /\ mInputChannel = 0
    /\ mRunningStatus_RX = InvalidType
    /\ mRunningStatus_TX = InvalidType
    /\ mPendingMessage \in IndeterminatePending
    /\ mPendingMessageExpectedLength = 0
    /\ mPendingMessageIndex = 0
    /\ mCurrentRpnNumber = NoParameterNumber
    /\ mCurrentNrpnNumber = NoParameterNumber
    /\ mMessage = EmptyMessage
    /\ mLastMessageSentTime = U32Zero
    /\ mLastMessageReceivedTime = U32Zero
    /\ mSenderActiveSensingPeriodicity = U32OfNat(inSettings.SenderActiveSensingPeriodicity)
    /\ mReceiverActiveSensingActivated = FALSE
    /\ mLastError = 0
    /\ rx = <<>>
    /\ tx = <<>>
    /\ now = inNow
    /\ call = [ op |-> "MidiInterface", args |-> <<>>, ret |-> FALSE, parsed |-> FALSE,
                consumed |-> 0, written |-> <<>>, parseError |-> FALSE,
                pendingOverrun |-> FALSE ]
    /\ stream = <<>>
    /\ got = <<>>
    /\ sent = <<>>

(***************************************************************************)
(* Actions: one per public method, and the transport's two ends            *)
(***************************************************************************)
\* begin() has been called: the sketch calls it once, in setup()
Begun == call.op # "MidiInterface"

Begin(inChannel) ==
    /\ ~Begun
    /\ Commit(begin(Self, inChannel), "begin", <<inChannel>>)

\* a byte arrives at the transport
Receive(inByte) ==
    /\ Begun
    /\ Len(rx) < MaxRx
    /\ rx' = Append(rx, inByte)
    /\ stream' = Append(stream, inByte)
    /\ UNCHANGED <<Settings, mInputChannel, mRunningStatus_RX, mRunningStatus_TX,
                   mPendingMessage, mPendingMessageExpectedLength, mPendingMessageIndex,
                   mCurrentRpnNumber, mCurrentNrpnNumber, mMessage, mLastMessageSentTime,
                   mLastMessageReceivedTime, mSenderActiveSensingPeriodicity,
                   mReceiverActiveSensingActivated, mLastError, tx, now, call, got, sent>>

\* read()
Read ==
    /\ Begun
    /\ Len(tx) < MaxTx
    /\ Commit(read(Self, mInputChannel), "read", <<mInputChannel>>)

\* send(inType, inData1, inData2, inChannel)
Send(inType, inData1, inData2, inChannel) ==
    /\ Begun
    /\ Commit(send(Self, inType, inData1, inData2, inChannel),
              "send", <<inType, inData1, inData2, inChannel>>)

\* send(const MidiMessage& inMessage)
SendMessage(inMessage) ==
    /\ Begun
    /\ Commit(sendMessage(Self, inMessage), "sendMessage", <<inMessage>>)

SendCommon(inType, inData1) ==
    /\ Begun
    /\ Commit(sendCommon(Self, inType, inData1), "sendCommon", <<inType, inData1>>)

SendRealTime(inType) ==
    /\ Begun
    /\ Commit(sendRealTime(Self, inType), "sendRealTime", <<inType>>)

SendClock == Begun /\ Commit(sendClock(Self), "sendClock", <<>>)

SendStart == Begun /\ Commit(sendStart(Self), "sendStart", <<>>)

SendStop == Begun /\ Commit(sendStop(Self), "sendStop", <<>>)

SendTick == Begun /\ Commit(sendTick(Self), "sendTick", <<>>)

SendContinue == Begun /\ Commit(sendContinue(Self), "sendContinue", <<>>)

SendActiveSensing == Begun /\ Commit(sendActiveSensing(Self), "sendActiveSensing", <<>>)

SendSystemReset == Begun /\ Commit(sendSystemReset(Self), "sendSystemReset", <<>>)

BeginRpn(inNumber, inChannel) ==
    /\ Begun
    /\ Commit(beginRpn(Self, inNumber, inChannel), "beginRpn", <<inNumber, inChannel>>)

SendPitchBend(inPitchValue, inChannel) ==
    /\ Begun
    /\ Commit(sendPitchBend(Self, inPitchValue, inChannel),
              "sendPitchBend", <<inPitchValue, inChannel>>)

SendRpnValue(inValue, inChannel) ==
    /\ Begun
    /\ Commit(sendRpnValue(Self, inValue, inChannel), "sendRpnValue", <<inValue, inChannel>>)

EndRpn(inChannel) ==
    /\ Begun
    /\ Commit(endRpn(Self, inChannel), "endRpn", <<inChannel>>)

BeginNrpn(inNumber, inChannel) ==
    /\ Begun
    /\ Commit(beginNrpn(Self, inNumber, inChannel), "beginNrpn", <<inNumber, inChannel>>)

SendNrpnValue(inValue, inChannel) ==
    /\ Begun
    /\ Commit(sendNrpnValue(Self, inValue, inChannel), "sendNrpnValue", <<inValue, inChannel>>)

EndNrpn(inChannel) ==
    /\ Begun
    /\ Commit(endNrpn(Self, inChannel), "endNrpn", <<inChannel>>)

\* the wire takes the written bytes away to another device
Transmit ==
    /\ tx # <<>> \/ sent # <<>>
    /\ tx' = <<>>
    /\ sent' = <<>>
    /\ UNCHANGED <<Settings, mInputChannel, mRunningStatus_RX, mRunningStatus_TX,
                   mPendingMessage, mPendingMessageExpectedLength, mPendingMessageIndex,
                   mCurrentRpnNumber, mCurrentNrpnNumber, mMessage, mLastMessageSentTime,
                   mLastMessageReceivedTime, mSenderActiveSensingPeriodicity,
                   mReceiverActiveSensingActivated, mLastError, rx, now, call, stream, got>>

\* a cable from the output to the input: the written bytes arrive at the transport
Loopback ==
    /\ tx # <<>>
    /\ Len(rx) + Len(tx) <= MaxRx + 1
    /\ tx' = <<>>
    /\ rx' = rx \o tx
    /\ stream' = stream \o tx
    /\ UNCHANGED <<Settings, mInputChannel, mRunningStatus_RX, mRunningStatus_TX,
                   mPendingMessage, mPendingMessageExpectedLength, mPendingMessageIndex,
                   mCurrentRpnNumber, mCurrentNrpnNumber, mMessage, mLastMessageSentTime,
                   mLastMessageReceivedTime, mSenderActiveSensingPeriodicity,
                   mReceiverActiveSensingActivated, mLastError, now, call, got, sent>>

\* The sketch's loop() calling read(inChannel) until the transport is empty:
\* the messages reported, in order, and the interface afterwards
RECURSIVE Poll(_, _)
Poll(s, inChannel) ==
    IF s.rx = <<>>
    THEN [ state |-> s, reported |-> <<>> ]
    ELSE LET after == read([s EXCEPT !.ret = FALSE, !.parsed = FALSE, !.consumed = 0,
                                     !.written = <<>>, !.parseError = FALSE], inChannel)
         IN  IF after.consumed = 0
             THEN [ state |-> after, reported |-> <<>> ]
             ELSE LET rest == Poll(after, inChannel)
                  IN  [ state |-> rest.state,
                        reported |->
                            (IF after.ret
                             THEN <<[ type |-> after.mMessage.type,
                                      channel |-> after.mMessage.channel,
                                      data1 |-> after.mMessage.data1,
                                      data2 |-> after.mMessage.data2 ]>>
                             ELSE <<>>) \o rest.reported ]

(***************************************************************************)
(* Running status on receive: channel-voice headers and bare data bytes    *)
(***************************************************************************)
MaxStreamRunning == 5

RunningBytes == {144, 192, 213, 60, 100, 64, 101}

RunningSettings ==
    { SettingsOf(TRUE, oneByte, FALSE, FALSE, FALSE, 0) : oneByte \in BOOLEAN }

InitRunning == \E st \in RunningSettings : Constructed(st, U32Zero)

NextRunning ==
    \/ Begin(MIDI_CHANNEL_OMNI)
    \/ \E b \in RunningBytes : Len(stream) < MaxStreamRunning /\ Receive(b)
    \/ Read

SpecRunning == InitRunning /\ [][NextRunning]_vars

\* The bytes of the stream that read() has taken from the transport
Consumed == SubSeq(stream, 1, Len(stream) - Len(rx))

\* What the caller sees of a reported message
Voice(type, channel, data1, data2) ==
    [ type |-> type, channel |-> channel, data1 |-> data1, data2 |-> data2 ]

Reported ==
    [ i \in 1..Len(got) |->
        Voice(got[i].type, got[i].channel, got[i].data1, got[i].data2) ]

\* The MIDI reading of a stream of channel-voice status bytes, data bytes and
\* real-time bytes: a status byte names type and channel of the messages after
\* it, every full group of data bytes (one for ProgramChange and
\* AfterTouchChannel, two for the other types) is one message, and a real-time
\* byte is a message of its own wherever it stands.
DataBytesOf(status) ==
    IF (status \div 16) * 16 \in {ProgramChange, AfterTouchChannel} THEN 1 ELSE 2

RealTimeBytes == {Clock, Tick, Start, Continue, Stop, ActiveSensing, SystemReset}

RECURSIVE RunningDecode(_, _, _)
RunningDecode(bytes, status, data) ==
    IF bytes = <<>>
    THEN <<>>
    ELSE IF Head(bytes) \in RealTimeBytes
    THEN <<Voice(Head(bytes), 0, 0, 0)>> \o RunningDecode(Tail(bytes), status, data)
    ELSE IF Head(bytes) >= 128
    THEN RunningDecode(Tail(bytes), Head(bytes), <<>>)
    ELSE LET d == Append(data, Head(bytes))
         IN  IF Len(d) = DataBytesOf(status)
             THEN <<Voice((status \div 16) * 16, (status % 16) + 1, d[1],
                          IF Len(d) = 2 THEN d[2] ELSE 0)>>
                  \o RunningDecode(Tail(bytes), status, <<>>)
             ELSE RunningDecode(Tail(bytes), status, d)

\* The stream starts with a channel-voice status byte, holds no other kind of
\* status byte, and every status byte after the first follows a complete
\* message (gathered counts the data bytes of the message under way, and is -1
\* between a status byte and its first data byte).
RECURSIVE Framed(_, _, _)
Framed(bytes, status, gathered) ==
    IF bytes = <<>>
    THEN TRUE
    ELSE IF Head(bytes) >= 128
    THEN /\ Head(bytes) < 240
         /\ gathered = 0
         /\ Framed(Tail(bytes), Head(bytes), -1)
    ELSE /\ status # 0
         /\ Framed(Tail(bytes), status,
                   ((IF gathered < 0 THEN 0 ELSE gathered) + 1) % DataBytesOf(status))

\* C2: running-status expansion on receive. Whenever the bytes taken so far are
\* channel-voice status bytes at message boundaries and data bytes, the messages
\* read() has reported are exactly the MIDI reading of those bytes: every full
\* group of data bytes after a status byte, with or without a new status byte in
\* front of it, is one message of that status byte's type and channel.
C2_RunningStatusExpansion ==
    Framed(Consumed, 0, 0) => Reported = RunningDecode(Consumed, 0, <<>>)

\* 0x90, 60, 100, 64, 101 has been read as NoteOn(60, 100) and NoteOn(64, 101) on channel 1
C2_Witness ==
    /\ stream = <<144, 60, 100, 64, 101>>
    /\ rx = <<>>
    /\ Reported = <<Voice(NoteOn, 1, 60, 100), Voice(NoteOn, 1, 64, 101)>>

(***************************************************************************)
(* Real-time bytes interleaved in channel-voice messages                   *)
(***************************************************************************)
MaxStreamInterleave == 4

InterleaveBytes ==
    {ControlChange, ProgramChange, 7, 64, Clock, Tick, ActiveSensing, SystemReset}

InitInterleave == \E st \in RunningSettings : Constructed(st, U32Zero)

NextInterleave ==
    \/ Begin(MIDI_CHANNEL_OMNI)
    \/ \E b \in InterleaveBytes : Len(stream) < MaxStreamInterleave /\ Receive(b)
    \/ Read

SpecInterleave == InitInterleave /\ [][NextInterleave]_vars

\* The bytes of a stream that are not real-time bytes
RECURSIVE WithoutRealTime(_)
WithoutRealTime(bytes) ==
    IF bytes = <<>>
    THEN <<>>
    ELSE IF Head(bytes) \in RealTimeBytes
    THEN WithoutRealTime(Tail(bytes))
    ELSE <<Head(bytes)>> \o WithoutRealTime(Tail(bytes))

\* C3: real-time interleaving. When a message is partly accumulated (fill index
\* 1 or 2) and the next byte on the transport is a real-time byte, read() takes
\* that one byte, reports it as a message with channel 0 and leaves the pending
\* buffer, the fill index, the expected length and the RX running status as
\* they were; and over a whole stream the reported messages are the real-time
\* bytes where they stood and the channel-voice messages the stream holds
\* without them.
C3_RealTimeInterleaving ==
    /\ ( /\ Begun
         /\ mInputChannel < MIDI_CHANNEL_OFF
         /\ mPendingMessageIndex \in {1, 2}
         /\ rx # <<>>
         /\ Head(rx) \in RealTimeBytes )
       => LET after == read(Self, mInputChannel)
          IN  /\ after.ret
              /\ after.consumed = 1
              /\ after.mMessage.type = Head(rx)
              /\ after.mMessage.channel = 0
              /\ after.mPendingMessage = mPendingMessage
              /\ after.mPendingMessageIndex = mPendingMessageIndex
              /\ after.mPendingMessageExpectedLength = mPendingMessageExpectedLength
              /\ after.mRunningStatus_RX = mRunningStatus_RX
    /\ Framed(WithoutRealTime(Consumed), 0, 0)
       => Reported = RunningDecode(Consumed, 0, <<>>)

\* 0xB0, 7, 0xF8, 64 has been read as Clock and then ControlChange(7, 64) on channel 1
C3_Witness ==
    /\ stream = <<176, 7, 248, 64>>
    /\ rx = <<>>
    /\ Reported = <<Voice(Clock, 0, 0, 0), Voice(ControlChange, 1, 7, 64)>>

(***************************************************************************)
(* Invalid bytes met in Idle, and the message after them                   *)
(***************************************************************************)
MaxStreamResync == 4

ResyncBytes ==
    { SystemExclusiveStart, SystemExclusiveEnd, Undefined_F4, Undefined_F5, Undefined_FD,
      64, 144, 193 }

InitResync == \E st \in RunningSettings : Constructed(st, U32Zero)

NextResync ==
    \/ Begin(MIDI_CHANNEL_OMNI)
    \/ \E b \in ResyncBytes : Len(stream) < MaxStreamResync /\ Receive(b)
    \/ Read

SpecResync == InitResync /\ [][NextResync]_vars

\* read() is about to take one of inBytes while the parser is Idle
IdleBefore(inBytes) ==
    /\ Begun
    /\ mInputChannel < MIDI_CHANNEL_OFF
    /\ mPendingMessageIndex = 0
    /\ rx # <<>>
    /\ Head(rx) \in inBytes

\* read() of the next byte sets ParseError, reports nothing and leaves the
\* parser Idle with no running status
FailsAndResets ==
    LET after == read(Self, mInputChannel)
    IN  /\ ~after.ret
        /\ after.consumed = 1
        /\ TestBit(after.mLastError, ErrorParse)
        /\ after.mPendingMessageIndex = 0
        /\ after.mPendingMessageExpectedLength = 0
        /\ after.mRunningStatus_RX = InvalidType

\* After a read() that ended in a parse error, a channel-voice status byte and
\* its data bytes are reported as exactly that message
ResyncMessages ==
    { <<144, 64, 7>>, <<144, 0, 0>>, <<193, 64>>, <<230, 7, 64>> }

ResyncsAfterError ==
    (call.op = "read" /\ call.parseError)
    => \A m \in ResyncMessages :
          Poll([Self EXCEPT !.rx = m], mInputChannel).reported
              = RunningDecode(m, 0, <<>>)

\* C4, as amended: in Idle, a sysex start 0xF0, a sysex end 0xF7, a reserved
\* 0xF4 or 0xF5, or a data byte while no RX running status is remembered sets
\* the ParseError bit, reports no message and leaves the parser Idle with the
\* RX running status invalid; the next channel-voice status byte and its data
\* bytes are then reported as exactly that message.
C4_ErrorResynchronization ==
    /\ IdleBefore({SystemExclusiveStart, SystemExclusiveEnd, Undefined_F4, Undefined_F5})
       => FailsAndResets
    /\ (IdleBefore(0..127) /\ mRunningStatus_RX = InvalidType) => FailsAndResets
    /\ ResyncsAfterError

\* C4, as claimed: the reserved 0xFD does the same
C4_AsClaimed ==
    /\ C4_ErrorResynchronization
    /\ IdleBefore({Undefined_FD}) => FailsAndResets

\* 0xF0 was refused, and the NoteOn after it has been reported
C4_Witness ==
    /\ stream = <<240, 144, 64, 64>>
    /\ rx = <<>>
    /\ Reported = <<Voice(NoteOn, 1, 64, 64)>>

(***************************************************************************)
(* The encoder on its own: each call's bytes are taken by the wire before  *)
(* the sketch makes the next call                                          *)
(***************************************************************************)
TxTypes == {NoteOn, ControlChange, ProgramChange, InvalidType, Clock}

TxData == {64, 200}

TxChannels == {MIDI_CHANNEL_OMNI, 1, 2, MIDI_CHANNEL_OFF}

TxNumbers == {5, 130}

TxValues == {129}

TxSettings ==
    { SettingsOf(runningStatus, FALSE, FALSE, FALSE, FALSE, 0) : runningStatus \in BOOLEAN }

InitTx == \E st \in TxSettings : Constructed(st, U32Zero)

NextTx ==
    \/ Begin(1)
    \/ \E t \in TxTypes, d1 \in TxData, d2 \in TxData, c \in TxChannels :
          sent = <<>> /\ Send(t, d1, d2, c)
    \/ \E t \in {TuneRequest, SongSelect, Clock} : sent = <<>> /\ SendCommon(t, 3)
    \/ \E t \in {Clock, Tick, TuneRequest} : sent = <<>> /\ SendRealTime(t)
    \/ sent = <<>> /\ SendClock
    \/ sent = <<>> /\ SendStart
    \/ sent = <<>> /\ SendStop
    \/ sent = <<>> /\ SendTick
    \/ sent = <<>> /\ SendContinue
    \/ sent = <<>> /\ SendActiveSensing
    \/ sent = <<>> /\ SendSystemReset
    \/ \E n \in TxNumbers, c \in TxChannels : sent = <<>> /\ BeginRpn(n, c)
    \/ \E v \in TxValues, c \in TxChannels : sent = <<>> /\ SendRpnValue(v, c)
    \/ \E c \in TxChannels : sent = <<>> /\ EndRpn(c)
    \/ \E n \in TxNumbers, c \in TxChannels : sent = <<>> /\ BeginNrpn(n, c)
    \/ \E v \in TxValues, c \in TxChannels : sent = <<>> /\ SendNrpnValue(v, c)
    \/ \E c \in TxChannels : sent = <<>> /\ EndNrpn(c)
    \/ Transmit

SpecTx == InitTx /\ [][NextTx]_vars

\* A step in which the sketch calls a method of the encoder
EncoderStep == Len(sent') > Len(sent)

ValidChannel(c) == c \in 1..16

ChannelVoiceTypes ==
    {NoteOff, NoteOn, AfterTouchPoly, ControlChange, ProgramChange, AfterTouchChannel,
     PitchBend}

\* The bytes of the channel-voice message send(type, data1, data2, channel) stands for
StatusOf(type, channel) == type + channel - 1

DataOf(type, data1, data2) ==
    IF type \in {ProgramChange, AfterTouchChannel}
    THEN <<data1 % 128>>
    ELSE <<data1 % 128, data2 % 128>>

IsVoiceSend(c) ==
    /\ c.op = "send"
    /\ c.args[1] \in ChannelVoiceTypes
    /\ ValidChannel(c.args[4])

\* The status byte a call leaves in force on the wire: the one of the
\* channel-voice message it sent, none (0) after begin() and after a System
\* Common message, and -1 where the call says nothing about it
StatusLeftBy(c) ==
    IF IsVoiceSend(c) THEN StatusOf(c.args[1], c.args[4])
    ELSE IF c.op = "begin" THEN 0
    ELSE IF c.op = "sendCommon" /\ c.written # <<>> THEN 0
    ELSE -1

WrittenMessages == RunningDecode(call'.written, mRunningStatus_TX, <<>>)

SelectionOf(lsbControl, msbControl, n, channel) ==
    << Voice(ControlChange, channel, lsbControl, n % 128),
       Voice(ControlChange, channel, msbControl, (n \div 128) % 128) >>

LoopData == {0, 60, 127}

LoopSettings ==
    { SettingsOf(runningStatus, oneByte, FALSE, FALSE, FALSE, 0) :
        runningStatus \in BOOLEAN, oneByte \in BOOLEAN }

InitLoop == \E st \in LoopSettings : Constructed(st, U32Zero)

NextLoop ==
    \/ Begin(MIDI_CHANNEL_OMNI)
    \/ \E t \in ChannelVoiceTypes, d1 \in LoopData, d2 \in LoopData, c \in 1..16 :
          sent = <<>> /\ Send(t, d1, d2, c)
    \/ Loopback
    \/ Read

SpecLoop == InitLoop /\ [][NextLoop]_vars

\* The one message sent has arrived and has been read to the last byte
RoundTripDone ==
    /\ Len(sent) = 1
    /\ IsVoiceSend(sent[1])
    /\ stream # <<>>
    /\ tx = <<>>
    /\ rx = <<>>

MaxStreamFilter == 4

FilterBytes == {NoteOn + 4, 0, 64, Clock, TuneRequest, SongPosition}

ListenChannels == {MIDI_CHANNEL_OMNI, 3, 5, MIDI_CHANNEL_OFF, 200}

FilterSettings ==
    { SettingsOf(TRUE, oneByte, nullVelocity, FALSE, FALSE, 0) :
        oneByte \in BOOLEAN, nullVelocity \in BOOLEAN }

InitFilter == \E st \in FilterSettings : Constructed(st, U32Zero)

NextFilter ==
    \/ \E c \in ListenChannels : Begin(c)
    \/ \E b \in FilterBytes : Len(stream) < MaxStreamFilter /\ Receive(b)
    \/ Read

SpecFilter == InitFilter /\ [][NextFilter]_vars

\* What a caller listening on listen is to hear of a message
Hears(listen, m) ==
    \/ m.type \notin ChannelVoiceTypes
    \/ listen = MIDI_CHANNEL_OMNI
    \/ m.channel = listen

NullVelocityAsNoteOff(m) ==
    IF m.type = NoteOn /\ m.data2 = 0 THEN [m EXCEPT !.type = NoteOff] ELSE m

Heard(listen, nullVelocity, msgs) ==
    SelectSeq([ i \in 1..Len(msgs) |->
                  IF nullVelocity THEN NullVelocityAsNoteOff(msgs[i]) ELSE msgs[i] ],
              LAMBDA m : Hears(listen, m))

\* C6: when a channel-voice message on channel c completes during
\* read(listen), read returns true if and only if listen = c or listen is the
\* omni wildcard 0, so that of a stream of channel-voice and real-time messages
\* the caller is told the messages on its channel (a NoteOn of velocity 0 as a
\* NoteOff where that setting is on); with listen at the off sentinel, 17 or
\* more, read never returns true, whatever bytes are waiting.
C6_ChannelFilter ==
    /\ (call.op = "read" /\ call.parsed /\ mMessage.type \in ChannelVoiceTypes)
          => (call.ret <=> mInputChannel \in {MIDI_CHANNEL_OMNI, mMessage.channel})
    /\ mInputChannel >= MIDI_CHANNEL_OFF
          => got = <<>> /\ ~(call.op = "read" /\ call.ret)
    /\ (Begun /\ mInputChannel < MIDI_CHANNEL_OFF /\ Framed(Consumed, 0, 0))
          => Reported = Heard(mInputChannel, Settings.HandleNullVelocityNoteOnAsNoteOff,
                              RunningDecode(Consumed, 0, <<>>))

C6_Witness ==
    /\ mInputChannel = 3
    /\ stream = <<NoteOn + 4, 64, 64, Clock>>
    /\ rx = <<Clock>>
    /\ call.op = "read"
    /\ call.parsed
    /\ ~call.ret
    /\ mMessage.channel = 5
    /\ Reported = <<>>

\* The complete system messages, as bytes
SystemMessages ==
    { <<Clock>>, <<Tick>>, <<Start>>, <<Continue>>, <<Stop>>, <<ActiveSensing>>,
      <<SystemReset>>,
      <<TuneRequest>>, <<TimeCodeQuarterFrame, 64>>, <<SongSelect, 0>>,
      <<SongPosition, 0, 64>>, <<SongPosition, 127, 127>> }

SystemMessageOf(bytes) ==
    Voice(bytes[1], 0,
          IF Len(bytes) > 1 THEN bytes[2] ELSE 0,
          IF Len(bytes) > 2 THEN bytes[3] ELSE 0)

\* The bytes of inMessage may be the next to arrive, and they are a message of
\* their own: a real-time byte anywhere, a System Common message where no
\* other message is under way
NextOnTransport(inMessage) ==
    /\ Begun
    /\ rx = <<>>
    /\ inMessage[1] \in RealTimeBytes \/ mPendingMessageIndex = 0

\* What read() reports once the bytes of inMessage have arrived
PollOf(inMessage) == Poll([Self EXCEPT !.rx = inMessage], mInputChannel).reported

MaxStreamNullVelocity == 5

NullVelocityBytes == {NoteOn, ControlChange + 1, 0, 64}

NullVelocitySettings ==
    { SettingsOf(TRUE, oneByte, TRUE, FALSE, FALSE, 0) : oneByte \in BOOLEAN }

InitNullVelocity == \E st \in NullVelocitySettings : Constructed(st, U32Zero)

NextNullVelocity ==
    \/ Begin(MIDI_CHANNEL_OMNI)
    \/ \E b \in NullVelocityBytes : Len(stream) < MaxStreamNullVelocity /\ Receive(b)
    \/ Read

SpecNullVelocity == InitNullVelocity /\ [][NextNullVelocity]_vars

\* C8: with HandleNullVelocityNoteOnAsNoteOff enabled, a completed NoteOn whose
\* second data byte is 0 is reported as NoteOff with the same note number,
\* velocity 0 and the same channel; a NoteOn with a velocity above 0 and a
\* message of another type are reported as they arrived.
C8_NullVelocityNormalization ==
    Framed(Consumed, 0, 0) =>
        LET arrived == RunningDecode(Consumed, 0, <<>>)
        IN  Reported = [ i \in 1..Len(arrived) |-> NullVelocityAsNoteOff(arrived[i]) ]

C8_Witness ==
    /\ stream = <<NoteOn, 64, 0, 64, 64>>
    /\ rx = <<>>
    /\ Reported = <<Voice(NoteOff, 1, 64, 0), Voice(NoteOn, 1, 64, 64)>>

(***************************************************************************)
(* The active-sensing watchdog of the receiver, and the clock              *)
(***************************************************************************)
\* The instants at which the sketch gets to run, as <<wraps, high half, low
\* half>> of the millisecond count: two seconds after power-up and on, then
\* the hours around the first wrap of the 32-bit counter
ClockInstants ==
    << <<0, 0, 2000>>, <<0, 0, 3000>>, <<0, 0, 5001>>,
       <<0, 65535, 62536>>, <<0, 65535, 64536>>, <<0, 65535, 65036>>,
       <<1, 0, 200>>, <<1, 0, 1500>> >>

\* Platform::now() at an instant: the count modulo 2^32
ClockAt(i) == U32(ClockInstants[i][2], ClockInstants[i][3])

\* The instant at which the clock reads inTime
InstantOf(inTime) == CHOOSE i \in 1..Len(ClockInstants) : ClockAt(i) = inTime

\* time passes
Elapse ==
    /\ \E j \in 1..Len(ClockInstants) :
          /\ j > InstantOf(now)
          /\ now' = ClockAt(j)
    /\ UNCHANGED <<Settings, mInputChannel, mRunningStatus_RX, mRunningStatus_TX,
                   mPendingMessage, mPendingMessageExpectedLength, mPendingMessageIndex,
                   mCurrentRpnNumber, mCurrentNrpnNumber, mMessage, mLastMessageSentTime,
                   mLastMessageReceivedTime, mSenderActiveSensingPeriodicity,
                   mReceiverActiveSensingActivated, mLastError, rx, tx, call, stream,
                   got, sent>>

MaxStreamSensing == 3

SensingBytes == {ActiveSensing, Clock, 64}

SensingSettings ==
    { SettingsOf(TRUE, oneByte, FALSE, FALSE, TRUE, 0) : oneByte \in BOOLEAN }

InitSensing == \E st \in SensingSettings : Constructed(st, ClockAt(1))

NextSensing ==
    \/ \E c \in {MIDI_CHANNEL_OMNI, MIDI_CHANNEL_OFF} : Begin(c)
    \/ \E b \in SensingBytes : Len(stream) < MaxStreamSensing /\ Receive(b)
    \/ Read
    \/ Elapse

SpecSensing == InitSensing /\ [][NextSensing]_vars

\* The milliseconds from instant i to the later instant j are more than inLimit
ElapsedExceeds(i, j, inLimit) ==
    LET a == ClockInstants[i]
        b == ClockInstants[j]
        high == (b[1] - a[1]) * 65536 + b[2] - a[2]
    IN  IF high >= 2 THEN TRUE
        ELSE IF high < 0 THEN FALSE
        ELSE high * 65536 + b[3] - a[3] > inLimit

TimeoutBit(s) == TestBit(s.mLastError, ErrorActiveSensingTimeout)

ReceivedActiveSensing(s) == s.parsed /\ s.mMessage.type = ActiveSensing

\* The receiver is armed and the last message was received more than the
\* fixed timeout ago
SilentTooLong ==
    /\ mReceiverActiveSensingActivated
    /\ ElapsedExceeds(InstantOf(mLastMessageReceivedTime), InstantOf(now),
                      ActiveSensingTimeout)

\* C11: the timeout-error bit is never set before an ActiveSensing message has
\* been received; a read of the armed receiver more than the fixed timeout
\* after the last received message sets the bit and disarms the receiver; no
\* other read sets the bit, and only a read that receives ActiveSensing arms
\* the receiver.
C11_ActiveSensingTimeout ==
    /\ TimeoutBit(Self) => \E i \in 1..Len(got) : got[i].type = ActiveSensing
    /\ Begun =>
          LET after == read(Self, mInputChannel)
          IN  /\ SilentTooLong =>
                    /\ TimeoutBit(after)
                    /\ ~after.mReceiverActiveSensingActivated \/ ReceivedActiveSensing(after)
              /\ ~SilentTooLong => (TimeoutBit(after) => TimeoutBit(Self))
              /\ after.mReceiverActiveSensingActivated =>
                    mReceiverActiveSensingActivated \/ ReceivedActiveSensing(after)

\* C12: a read that receives an ActiveSensing message leaves the receiver armed
\* and the timeout-error bit clear, also when the bit was set before it.
C12_ActiveSensingRecovery ==
    (call.op = "read" /\ call.parsed /\ mMessage.type = ActiveSensing)
        => /\ mReceiverActiveSensingActivated
           /\ ~TimeoutBit(Self)

(***************************************************************************)
(* Real-time senders and invalid channels                                  *)
(***************************************************************************)
\* The real-time type a convenience sender stands for
RealTimeSenders ==
    [ sendClock |-> Clock, sendTick |-> Tick, sendStart |-> Start,
      sendContinue |-> Continue, sendStop |-> Stop,
      sendActiveSensing |-> ActiveSensing, sendSystemReset |-> SystemReset ]

\* C13: sendRealTime(type) and each convenience sender write exactly one byte,
\* the type code, for each of the seven real-time types, and leave the TX
\* running status unchanged; sendRealTime of another type writes nothing.
C13_RealTimeSenders ==
    [][ EncoderStep =>
          /\ call'.op = "sendRealTime" =>
                /\ call'.written = IF call'.args[1] \in RealTimeBytes
                                   THEN <<call'.args[1]>> ELSE <<>>
                /\ mRunningStatus_TX' = mRunningStatus_TX
          /\ call'.op \in DOMAIN RealTimeSenders =>
                /\ call'.written = <<RealTimeSenders[call'.op]>>
                /\ mRunningStatus_TX' = mRunningStatus_TX ]_vars

\* The channel argument of a call of a channel operation
ChannelOf(c) ==
    IF c.op = "send" THEN c.args[4]
    ELSE IF c.op \in {"endRpn", "endNrpn"} THEN c.args[1]
    ELSE c.args[2]

ChannelOperations ==
    {"send", "beginRpn", "sendRpnValue", "endRpn", "beginNrpn", "sendNrpnValue", "endNrpn"}

\* C15: an encoder operation called with an invalid channel (0, or 17 or
\* more), send() of a channel-voice type and the operations built on it,
\* writes no byte and leaves the TX running status and the remembered RPN and
\* NRPN numbers unchanged.
C15_InvalidChannelNoOp ==
    [][ (/\ EncoderStep
         /\ call'.op \in ChannelOperations
         /\ call'.op = "send" => call'.args[1] \in ChannelVoiceTypes
         /\ ~ValidChannel(ChannelOf(call'))) =>
          /\ call'.written = <<>>
          /\ mRunningStatus_TX' = mRunningStatus_TX
          /\ mCurrentRpnNumber' = mCurrentRpnNumber
          /\ mCurrentNrpnNumber' = mCurrentNrpnNumber ]_vars

(***************************************************************************)
(* Sequences of encoder calls, the bytes left on the wire                  *)
(***************************************************************************)
MaxSent == 3

SequenceSends == {<<NoteOn, 64, 7, 1>>, <<NoteOn, 64, 7, 2>>, <<ProgramChange, 64, 7, 1>>}

SequenceCommons == {TimeCodeQuarterFrame, SongPosition, SongSelect, TuneRequest, Clock}

InitSequence == \E st \in TxSettings : Constructed(st, U32Zero)

NextSequence ==
    \/ Begin(1)
    \/ \E a \in SequenceSends : Len(sent) < MaxSent /\ Send(a[1], a[2], a[3], a[4])
    \/ \E t \in SequenceCommons : Len(sent) < MaxSent /\ SendCommon(t, 200)

SpecSequence == InitSequence /\ [][NextSequence]_vars

IsCommonSend(c) ==
    /\ c.op = "sendCommon"
    /\ c.args[1] \in {TimeCodeQuarterFrame, SongPosition, SongSelect, TuneRequest}

MaxStreamAny == 3

\* Status bytes of channel-voice types with one and with two data bytes,
\* every System Common, sysex and undefined status byte, some real-time
\* bytes, and the least and the greatest data byte
AnyBytes ==
    {NoteOff + 15, NoteOn, ProgramChange + 3, PitchBend + 5}
        \cup 240..247 \cup {Clock, Tick, Undefined_FD, ActiveSensing} \cup {0, 127}

InitAny == \E st \in RunningSettings : Constructed(st, U32Zero)

NextAny ==
    \/ Begin(MIDI_CHANNEL_OMNI)
    \/ \E b \in AnyBytes : Len(stream) < MaxStreamAny /\ Receive(b)
    \/ Read

SpecAny == InitAny /\ [][NextAny]_vars

\* C16: every message the parser reports has data1 and data2 in 0..127.
C16_DataBytesMasked ==
    \A i \in 1..Len(got) : got[i].data1 \in 0..127 /\ got[i].data2 \in 0..127

SystemCommonTypes == {TimeCodeQuarterFrame, SongPosition, SongSelect, TuneRequest}

\* C17: every message the parser reports has a channel-voice, System Common
\* (TimeCodeQuarterFrame, SongPosition, SongSelect, TuneRequest) or real-time
\* type, never InvalidType, an undefined code or a sysex marker, and its
\* channel is in 1..16 when the type is channel-voice and 0 otherwise.
C17_ReportedTypeAndChannel ==
    \A i \in 1..Len(got) :
        /\ got[i].type \in ChannelVoiceTypes \cup SystemCommonTypes \cup RealTimeBytes
        /\ got[i].type \in ChannelVoiceTypes => got[i].channel \in 1..16
        /\ got[i].type \notin ChannelVoiceTypes => got[i].channel = 0

C17_Witness ==
    /\ stream = <<SongPosition, 127, 0>>
    /\ rx = <<>>
    /\ Reported = <<Voice(SongPosition, 0, 127, 0)>>

\* The channels a read may listen on: every channel, one channel, none
ReadChannels == {MIDI_CHANNEL_OMNI, 1, MIDI_CHANNEL_OFF}

\* C18 as the code has it: after a read that took at least one byte from the
\* transport the ParseError bit is set if and only if the parsing of that read
\* hit a parse error; a read that takes no byte (nothing is available, or the
\* interface listens on no channel) leaves the bit as it was.
C18_ParseErrorCleared ==
    Begun =>
        \A inChannel \in ReadChannels :
            LET r == read(Self, inChannel)
            IN  IF r.consumed > 0
                THEN TestBit(r.mLastError, ErrorParse) <=> r.parseError
                ELSE /\ ~r.parseError
                     /\ TestBit(r.mLastError, ErrorParse)
                            <=> TestBit(mLastError, ErrorParse)

\* C18 as claimed: after any read, with or without bytes available, the
\* ParseError bit is set if and only if that read hit a parse error.
C18_AsClaimed ==
    Begun =>
        \A inChannel \in ReadChannels :
            LET r == read(Self, inChannel)
            IN  TestBit(r.mLastError, ErrorParse) <=> r.parseError

\* A parse error was reported, a later read parsed a byte without error and
\* cleared the bit, and a read that found nothing has left it clear
C18_Witness ==
    /\ stream = <<SystemExclusiveStart, Clock>>
    /\ Reported = <<Voice(Clock, 0, 0, 0)>>
    /\ call.op = "read"
    /\ call.consumed = 0
    /\ ~TestBit(mLastError, ErrorParse)

(***************************************************************************)
(* The undefined status bytes                                              *)
(***************************************************************************)
\* The next byte on the transport is one of inBytes
NextByteIn(inBytes) == Begun /\ rx # <<>> /\ Head(rx) \in inBytes

\* What a read that discards the next byte leaves: the byte is taken from the
\* transport and the ParseError bit is cleared; in single-byte mode nothing
\* else changes and no message is returned, in greedy mode the read goes on
\* as a read of the bytes after it
DiscardsNextByte ==
    LET s == [Self EXCEPT !.rx = Tail(@),
                          !.mLastError = ClearBit(@, ErrorParse)]
    IN  IF Settings.Use1ByteParsing
        THEN [s EXCEPT !.ret = FALSE, !.consumed = 1]
        ELSE [read(s, mInputChannel) EXCEPT !.consumed = @ + 1]

\* C19 as the code has it: the undefined byte 0xFD is discarded in Idle and
\* while a message accumulates: it produces no message, does not set
\* ParseError and leaves the pending buffer, the fill index and the RX running
\* status unchanged; in single-byte mode the call returns no message and in
\* greedy mode the call goes on to the next byte.
C19_UndefinedDiscarded ==
    NextByteIn({Undefined_FD}) => read(Self, mInputChannel) = DiscardsNextByte

\* C19 as claimed: 0xF4, 0xF5 and 0xFD are discarded in both states
C19_AsClaimed ==
    NextByteIn({Undefined_F4, Undefined_F5, Undefined_FD})
        => read(Self, mInputChannel) = DiscardsNextByte

\* 0xFD arrived inside a NoteOn, which was reported whole all the same
C19_Witness ==
    /\ stream = <<NoteOn, Undefined_FD, 64, 64>>
    /\ rx = <<>>
    /\ Reported = <<Voice(NoteOn, 1, 64, 64)>>
    /\ ~TestBit(mLastError, ErrorParse)

(***************************************************************************)
(* Pitch bend from a signed integer                                        *)
(***************************************************************************)
PitchBendValues == MIDI_PITCHBEND_MIN..MIDI_PITCHBEND_MAX

PitchBendChannels == {1, 16, MIDI_CHANNEL_OFF}

InitPitchBend == \E st \in TxSettings : Constructed(st, U32Zero)

\* The values a sketch has sent before the value that is looked at
PitchBendEarlier == {MIDI_PITCHBEND_MIN, 0, MIDI_PITCHBEND_MAX}

\* Every value is sent as the first message after begin() and as the message
\* after an earlier one
NextPitchBend ==
    \/ Begin(1)
    \/ /\ sent = <<>>
       /\ call.op = "sendPitchBend" => call.args[1] \in PitchBendEarlier
       /\ \E v \in PitchBendValues, c \in PitchBendChannels : SendPitchBend(v, c)
    \/ Transmit

SpecPitchBend == InitPitchBend /\ [][NextPitchBend]_vars

MaxStreamRelay == 3

RelayBytes == {NoteOn, ProgramChange + 3, SongSelect, Clock, SystemReset, 64}

InitRelay == \E st \in RunningSettings : Constructed(st, U32Zero)

\* MIDI.send(MIDI.getMessage()) after a read() that returned true
Relay ==
    /\ call.op = "read" /\ call.ret
    /\ SendMessage(mMessage)

NextRelay ==
    \/ Begin(MIDI_CHANNEL_OMNI)
    \/ \E b \in RelayBytes : Len(stream) < MaxStreamRelay /\ Receive(b)
    \/ Read
    \/ Relay
    \/ Transmit

SpecRelay == InitRelay /\ [][NextRelay]_vars

\* The status byte of a message and the data bytes received for it
BytesOf(m) ==
    IF m.type \in ChannelVoiceTypes
    THEN IF m.type \in {ProgramChange, AfterTouchChannel}
         THEN <<StatusOf(m.type, m.channel), m.data1>>
         ELSE <<StatusOf(m.type, m.channel), m.data1, m.data2>>
    ELSE IF m.type \in {TimeCodeQuarterFrame, SongSelect} THEN <<m.type, m.data1>>
    ELSE IF m.type = SongPosition THEN <<m.type, m.data1, m.data2>>
    ELSE <<m.type>>

\* C21: send(message) of a message that read reported writes the message's
\* status byte followed by the data bytes received for it (two, one or none,
\* by its type), and the message's length field is in 1..3.
C21_Relay ==
    call.op = "sendMessage" =>
        /\ call.args[1].length \in 1..3
        /\ call.written = BytesOf(call.args[1])

(***************************************************************************)
(* A channel-voice message arriving in any parser state                    *)
(***************************************************************************)
\* C22: in every reachable parser state, one with a message partly
\* accumulated included, when the next bytes are a channel-voice status byte
\* and its data bytes, the reads that take them end with a report of exactly
\* that message, on the read that takes its last data byte.
C22_ResyncFromAnyState ==
    (Begun /\ rx = <<>>) =>
        \A m \in ResyncMessages :
            LET polled == Poll([Self EXCEPT !.rx = m], mInputChannel)
                n == Len(polled.reported)
            IN  /\ polled.state.rx = <<>>
                /\ n > 0
                /\ polled.reported[n] = RunningDecode(m, 0, <<>>)[1]

(***************************************************************************)
(* Encoder and decoder over a sequence of calls                            *)
(***************************************************************************)
AgreeSends == {<<NoteOn, 64, 7, 1>>, <<ControlChange, 7, 64, 1>>}

\* Valid channel-voice messages built outside the library
AgreeMessages ==
    { [ type |-> a[1], channel |-> a[4], data1 |-> a[2], data2 |-> a[3],
        length |-> 3, valid |-> TRUE ] : a \in AgreeSends }

AgreeCommons == {<<TuneRequest, 0>>, <<SongSelect, 5>>, <<SongPosition, 200>>}

InitAgree == \E st \in RunningSettings : Constructed(st, U32Zero)

NextAgree ==
    \/ Begin(MIDI_CHANNEL_OMNI)
    \/ /\ Len(sent) < MaxSent
       /\ \/ \E a \in AgreeSends : Send(a[1], a[2], a[3], a[4])
          \/ \E m \in AgreeMessages : SendMessage(m)
          \/ SendRealTime(Clock)
          \/ \E a \in AgreeCommons : SendCommon(a[1], a[2])

SpecAgree == InitAgree /\ [][NextAgree]_vars

\* The message an encoder call stands for
MessageOf(c) ==
    IF c.op = "send" THEN Voice(c.args[1], c.args[4], c.args[2], c.args[3])
    ELSE IF c.op = "sendMessage"
    THEN Voice(c.args[1].type, c.args[1].channel, c.args[1].data1, c.args[1].data2)
    ELSE IF c.op = "sendCommon" /\ c.args[1] = SongPosition
    THEN Voice(SongPosition, 0, c.args[2] % 128, (c.args[2] \div 128) % 128)
    ELSE IF c.op = "sendCommon" THEN Voice(c.args[1], 0, c.args[2], 0)
    ELSE Voice(c.args[1], 0, 0, 0)

\* C23: with running status enabled, a parser that is fed the bytes written
\* by a sequence of send(type, d1, d2, channel), send(message), sendRealTime
\* and sendCommon calls reports, in order, exactly the messages sent.
C23_EncoderDecoderAgreement ==
    Begun =>
        Poll([Self EXCEPT !.rx = tx], MIDI_CHANNEL_OMNI).reported
            = [ i \in 1..Len(sent) |-> MessageOf(sent[i]) ]

(***************************************************************************)
(* What a parse error leaves                                               *)
(***************************************************************************)
\* C24: every read whose parsing set the ParseError bit, in Idle or while a
\* message accumulates (a sysex start or end inside a message included),
\* reports no message and leaves the fill index 0, the expected length 0 and
\* the RX running status InvalidType.
C24_ParseErrorResets ==
    (call.op = "read" /\ call.parseError) =>
        /\ TestBit(mLastError, ErrorParse)
        /\ ~call.ret /\ ~call.parsed
        /\ mPendingMessageIndex = 0
        /\ mPendingMessageExpectedLength = 0
        /\ mRunningStatus_RX = InvalidType

\* ProgramChange was reported and its status remembered; a NoteOn status byte
\* followed, and the sysex start inside that message was refused
C24_Witness ==
    /\ stream = <<193, 64, 144, SystemExclusiveStart>>
    /\ rx = <<>>
    /\ call.op = "read" /\ call.parseError
    /\ Reported = <<Voice(ProgramChange, 2, 64, 0)>>
    /\ mRunningStatus_RX = InvalidType
    /\ mPendingMessageIndex = 0

(***************************************************************************)
(* The RX running status after a completed message                         *)
(***************************************************************************)
\* C25: the read that completes a System Common message (TimeCodeQuarterFrame,
\* SongSelect, SongPosition or TuneRequest) leaves the RX running status
\* InvalidType, so that a bare data byte read next is a parse error; the read
\* that completes a channel-voice message leaves the RX running status at
\* that message's status byte.
C25_RunningStatusAfterCompletion ==
    (call.op = "read" /\ call.parsed) =>
        /\ mMessage.type \in SystemCommonTypes =>
              /\ mRunningStatus_RX = InvalidType
              /\ \A d \in {0, 127} :
                    read([Self EXCEPT !.rx = <<d>>], mInputChannel).parseError
        /\ mMessage.type \in ChannelVoiceTypes =>
              mRunningStatus_RX = StatusOf(mMessage.type, mMessage.channel)

(***************************************************************************)
(* A real-time byte between messages                                       *)
(***************************************************************************)
\* C26: a real-time byte read while the parser is Idle is reported as a
\* message of its type and leaves the RX running status unchanged: when a
\* channel-voice status is remembered, a real-time byte and then bare data
\* bytes are reported as the real-time message and a message of the
\* remembered type and channel with those data bytes.
C26_RealTimeInIdle ==
    (Begun /\ mPendingMessageIndex = 0 /\ rx = <<>>) =>
        \A rt \in RealTimeBytes :
            /\ LET after == read([Self EXCEPT !.rx = <<rt>>], mInputChannel)
               IN  /\ after.ret
                   /\ after.mMessage.type = rt
                   /\ after.mMessage.channel = 0
                   /\ after.mRunningStatus_RX = mRunningStatus_RX
                   /\ after.mPendingMessageIndex = 0
            /\ isChannelMessage(getTypeFromStatusByte(mRunningStatus_RX)) =>
                  \A d1 \in {7, 64} :
                      LET data == DataOf(getTypeFromStatusByte(mRunningStatus_RX), d1, 7)
                      IN  Poll([Self EXCEPT !.rx = <<rt>> \o data], mInputChannel).reported
                            = <<Voice(rt, 0, 0, 0)>>
                                \o RunningDecode(<<mRunningStatus_RX>> \o data, 0, <<>>)

\* ProgramChange 7, Clock, and the bare data byte 64 read as ProgramChange 64
C26_Witness ==
    /\ stream = <<ProgramChange, 7, Clock, 64>>
    /\ rx = <<>>
    /\ Reported = <<Voice(ProgramChange, 1, 7, 0), Voice(Clock, 0, 0, 0),
                    Voice(ProgramChange, 1, 64, 0)>>
    /\ mRunningStatus_RX = ProgramChange

(***************************************************************************)
(* Bytes taken from the transport by one call                              *)
(***************************************************************************)
MaxStreamModes == 3

\* Status bytes of a three-byte and a two-byte channel-voice message, of a
\* three-byte and a one-byte System Common message, a sysex start, the
\* discarded 0xFD, a real-time byte, and the least and the greatest data byte
ModeBytes ==
    {NoteOn, ProgramChange + 3, SongPosition, TuneRequest, SystemExclusiveStart,
     Undefined_FD, Clock, 0, 127}

InitModes == \E st \in RunningSettings : Constructed(st, U32Zero)

NextModes ==
    \/ Begin(MIDI_CHANNEL_OMNI)
    \/ \E b \in ModeBytes : Len(stream) < MaxStreamModes /\ Receive(b)
    \/ Read

SpecModes == InitModes /\ [][NextModes]_vars

\* C27: a read takes a prefix of the available bytes.  In single-byte mode it
\* takes exactly one byte when any is available and none otherwise.  In
\* greedy mode it takes bytes until a message completes, a parse error occurs
\* or the input is exhausted, and the byte that completed the reported
\* message is the last one it takes.
C27_BytesConsumed ==
    Begun =>
        LET after == read(Self, mInputChannel)
            n == Len(rx)
            k == after.consumed
        IN  /\ k <= n
            /\ after.rx = SubSeq(rx, k + 1, n)
            /\ n = 0 => k = 0
            /\ (n > 0 /\ Settings.Use1ByteParsing) => k = 1
            /\ (n > 0 /\ ~Settings.Use1ByteParsing) =>
                  /\ k >= 1
                  /\ after.parsed \/ after.parseError \/ k = n
                  /\ after.parsed =>
                        ~read([Self EXCEPT !.rx = SubSeq(rx, 1, k - 1)],
                              mInputChannel).parsed

\* Greedy mode: with the bytes 00 7F available after the status byte C3, the
\* read took 00, reported ProgramChange and left 7F on the transport
C27_Witness ==
    /\ ~Settings.Use1ByteParsing
    /\ stream = <<ProgramChange + 3, 0, 127>>
    /\ rx = <<127>>
    /\ call.op = "read" /\ call.consumed = 1 /\ call.parsed
    /\ Reported = <<Voice(ProgramChange, 4, 0, 0)>>

(***************************************************************************)
(* Single-byte mode and greedy mode                                        *)
(***************************************************************************)
\* The interface with Use1ByteParsing set to inOneByte, reading until the
\* transport is empty
PollInMode(inOneByte) ==
    Poll([Self EXCEPT !.Settings.Use1ByteParsing = inOneByte], mInputChannel)

\* The parser state of an interface
ParserStateOf(s) ==
    <<s.mPendingMessage, s.mPendingMessageIndex, s.mPendingMessageExpectedLength,
      s.mRunningStatus_RX>>

\* C28: from every parser state and for all bytes on the transport, reading
\* until the input is exhausted reports the same messages (type, channel,
\* data1, data2) and ends in the same parser state (pending buffer, fill
\* index, expected length, RX running status) in single-byte mode and in
\* greedy mode.
C28_ModesEquivalent ==
    Begun =>
        LET single == PollInMode(TRUE)
            greedy == PollInMode(FALSE)
        IN  /\ single.reported = greedy.reported
            /\ ParserStateOf(single.state) = ParserStateOf(greedy.state)
            /\ single.state.rx = <<>>
            /\ greedy.state.rx = <<>>

\* The data bytes of a NoteOn are on the transport, its status byte has been
\* read: one greedy read or two single-byte reads report the NoteOn
C28_Witness ==
    /\ stream = <<NoteOn, 0, 127>>
    /\ rx = <<0, 127>>
    /\ mPendingMessageIndex = 1
    /\ PollInMode(TRUE).reported = <<Voice(NoteOn, 1, 0, 127)>>
    /\ PollInMode(FALSE).reported = <<Voice(NoteOn, 1, 0, 127)>>
    /\ read([Self EXCEPT !.Settings.Use1ByteParsing = FALSE], mInputChannel).consumed = 2
    /\ read([Self EXCEPT !.Settings.Use1ByteParsing = TRUE], mInputChannel).consumed = 1

(***************************************************************************)
(* Parameter selections as a receiver of the wire sees them                *)
(***************************************************************************)
ParameterNumbers == {5, 7}

ParameterChannels == {1, 2}

InitParameter == \E st \in TxSettings : Constructed(st, U32Zero)

NextParameter ==
    \/ Begin(1)
    \/ /\ Len(sent) < MaxSent
       /\ \/ \E n \in ParameterNumbers, c \in ParameterChannels : BeginRpn(n, c)
          \/ \E n \in ParameterNumbers, c \in ParameterChannels : BeginNrpn(n, c)
          \/ \E c \in ParameterChannels : SendRpnValue(129, c)
          \/ \E c \in ParameterChannels : SendNrpnValue(129, c)
          \/ \E c \in ParameterChannels : EndRpn(c)
          \/ \E c \in ParameterChannels : EndNrpn(c)

SpecParameter == InitParameter /\ [][NextParameter]_vars

\* The messages a receiver reads from all the bytes written since begin()
Wire == RunningDecode(tx, 0, <<>>)

\* The places on the wire where a selection pair (LSB controller, then its MSB
\* controller) on one of inChannels ends
SelectionsOn(inChannels, msbControls) ==
    { i \in 2..Len(Wire) :
        /\ Wire[i].type = ControlChange /\ Wire[i - 1].type = ControlChange
        /\ Wire[i].channel \in inChannels /\ Wire[i - 1].channel = Wire[i].channel
        /\ Wire[i].data1 \in msbControls
        /\ Wire[i - 1].data1 = Wire[i].data1 - 1 }

\* The latest of them: its MSB controller and the 14-bit number it selects
LastSelectionOn(inChannels, msbControls) ==
    LET found == SelectionsOn(inChannels, msbControls)
    IN  IF found = {}
        THEN <<>>
        ELSE LET i == CHOOSE j \in found : \A k \in found : k <= j
             IN  <<Wire[i].data1, Wire[i - 1].data2 + 128 * Wire[i].data2>>

\* C29: when beginRpn(n, ch) has returned for a channel 1..16, the latest RPN
\* selection pair written on channel ch is that of n, so a sendRpnValue on ch
\* addresses parameter n; the same for beginNrpn.
C29_SelectionPerChannel ==
    /\ (call.op = "beginRpn" /\ ValidChannel(call.args[2])) =>
          LastSelectionOn({call.args[2]}, {RPNMSB}) = <<RPNMSB, call.args[1]>>
    /\ (call.op = "beginNrpn" /\ ValidChannel(call.args[2])) =>
          LastSelectionOn({call.args[2]}, {NRPNMSB}) = <<NRPNMSB, call.args[1]>>

\* C30: when beginRpn(n, ch) has returned, the latest selection pair on the
\* wire, of either family, is the RPN selection of n, so Data Entry sent next
\* applies to RPN n; symmetrically for beginNrpn.
C30_FamiliesDoNotMask ==
    /\ (call.op = "beginRpn" /\ ValidChannel(call.args[2])) =>
          LastSelectionOn(1..16, {RPNMSB, NRPNMSB}) = <<RPNMSB, call.args[1]>>
    /\ (call.op = "beginNrpn" /\ ValidChannel(call.args[2])) =>
          LastSelectionOn(1..16, {RPNMSB, NRPNMSB}) = <<NRPNMSB, call.args[1]>>

(***************************************************************************)
(* The active-sensing heartbeat of the sender                              *)
(***************************************************************************)
HeartbeatPeriodicity == 1000

HeartbeatSettings ==
    { SettingsOf(TRUE, FALSE, FALSE, senderSensing, FALSE, periodicity) :
          senderSensing \in BOOLEAN, periodicity \in {0, HeartbeatPeriodicity} }

HeartbeatChannels == {1, MIDI_CHANNEL_OFF}

HeartbeatMessages ==
    { [ type |-> NoteOff, channel |-> 2, data1 |-> 60, data2 |-> 0,
        length |-> 3, valid |-> TRUE ],
      EmptyMessage }

InitHeartbeat == \E st \in HeartbeatSettings : Constructed(st, ClockAt(1))

NextHeartbeat ==
    \/ \E c \in HeartbeatChannels : Begin(c)
    \/ Elapse
    \/ Read
    \/ \E c \in HeartbeatChannels : sent = <<>> /\ Send(NoteOn, 60, 100, c)
    \/ \E m \in HeartbeatMessages : sent = <<>> /\ SendMessage(m)
    \/ \E t \in {TuneRequest, NoteOn} : sent = <<>> /\ SendCommon(t, 0)
    \/ \E t \in {Clock, Tick} : sent = <<>> /\ SendRealTime(t)
    \/ Transmit

SpecHeartbeat == InitHeartbeat /\ [][NextHeartbeat]_vars

\* The sender watchdog is enabled with a periodicity above 0
HeartbeatEnabled ==
    Settings.UseSenderActiveSensing /\ Settings.SenderActiveSensingPeriodicity > 0

\* More than the periodicity has elapsed since the last-sent time
HeartbeatDue ==
    ElapsedExceeds(InstantOf(mLastMessageSentTime), InstantOf(now),
                   Settings.SenderActiveSensingPeriodicity)

\* A read now writes the heartbeat exactly when it is enabled and due, records
\* the time, and a second read in the same instant writes nothing more
HeartbeatOnRead ==
    \A c \in HeartbeatChannels :
        LET first  == read(Self, c)
            second == read(first, c)
        IN  /\ first.written
                 = IF HeartbeatEnabled /\ HeartbeatDue THEN <<ActiveSensing>> ELSE <<>>
            /\ first.written # <<>> => first.mLastMessageSentTime = now
            /\ second.written = first.written

\* The step is a call of an encoder method
IsSendStep == Len(sent') = Len(sent) + 1

WrappedSilence == U32Sub(now, mLastMessageReceivedTime)

\* C32: the receiver timeout fires in a read if and only if the receiver is
\* armed and the wrapped difference between the clock and the last-received
\* time exceeds the fixed timeout, also when the clock has wrapped since the
\* last received message or when the last-received time plus the timeout
\* exceeds the maximum of the counter.
C32_WraparoundSafe ==
    (Begun /\ Settings.UseReceiverActiveSensing) =>
        LET after == readWatchdog(Self)
        IN  (TimeoutBit(after) /\ ~after.mReceiverActiveSensingActivated
               /\ mReceiverActiveSensingActivated)
            <=> (/\ mReceiverActiveSensingActivated
                 /\ U32Less(U32OfNat(ActiveSensingTimeout), WrappedSilence))

(***************************************************************************)
(* Reading with the input switched off                                     *)
(***************************************************************************)
MaxStreamOff == 3

OffBytes == {NoteOn + 1, 60, 100, SystemExclusiveStart, Clock}

\* The channels read(Channel) is called with: two that are enabled, two that
\* switch the input off
OffChannels == {MIDI_CHANNEL_OMNI, 2, MIDI_CHANNEL_OFF, 200}

\* read(Channel inChannel)
ReadOn(inChannel) ==
    /\ Begun
    /\ Commit(read(Self, inChannel), "read", <<inChannel>>)

InitOff == \E st \in RunningSettings : Constructed(st, U32Zero)

NextOff ==
    \/ Begin(MIDI_CHANNEL_OMNI)
    \/ \E b \in OffBytes : Len(stream) < MaxStreamOff /\ Receive(b)
    \/ \E c \in OffChannels : ReadOn(c)

SpecOff == InitOff /\ [][NextOff]_vars

\* What a read leaves of the parser and of the transport's input
ReadOutcome(s) ==
    <<s.ret, s.rx, s.mPendingMessage, s.mPendingMessageIndex, s.mRunningStatus_RX,
      s.mMessage, TestBit(s.mLastError, ErrorParse)>>

\* C33: a read with a listening channel of 17 or more returns false, takes no
\* byte from the transport and leaves the pending buffer, the fill index, the
\* RX running status, the stored message and the ParseError bit as they were,
\* so that a later read on an enabled channel does what it would have done
\* without it.
C33_OffReadsNothing ==
    Begun =>
        \A off \in {c \in OffChannels : c >= MIDI_CHANNEL_OFF} :
            LET after == read(Self, off)
            IN  /\ ~after.ret
                /\ after.consumed = 0
                /\ ReadOutcome(after) = ReadOutcome(Self)
                /\ \A c \in OffChannels :
                      ReadOutcome(read(after, c)) = ReadOutcome(read(Self, c))

\* With NoteOn and its first data byte pending and the second waiting on the
\* transport, a read with the input off has left both where they were
C33_Witness ==
    /\ call.op = "read"
    /\ call.args = <<MIDI_CHANNEL_OFF>>
    /\ mPendingMessageIndex = 2
    /\ mPendingMessage[1] = NoteOn + 1
    /\ rx = <<100>>

(***************************************************************************)
(* Normalization and the RX running status                                 *)
(***************************************************************************)
\* The last read reported a NoteOn with velocity 0 as NoteOff
NormalizedNoteOn ==
    /\ call.op = "read"
    /\ call.ret
    /\ mMessage.type = NoteOff
    /\ getTypeFromStatusByte(mPendingMessage[1]) = NoteOn

\* C34: with normalization enabled, after a NoteOn with velocity 0 has been
\* reported as NoteOff the RX running status still names NoteOn on that
\* channel, and a data pair (note, velocity) that follows without a status
\* byte is reported as NoteOn when the velocity is above 0 and as NoteOff
\* when it is 0.
C34_NormalizationKeepsRunningStatus ==
    /\ NormalizedNoteOn =>
          /\ mRunningStatus_RX = NoteOn + mMessage.channel - 1
          /\ \A note \in {0, 64, 127}, velocity \in {0, 1, 64} :
                Poll([Self EXCEPT !.rx = <<note, velocity>>], MIDI_CHANNEL_OMNI).reported
                  = <<Voice(IF velocity > 0 THEN NoteOn ELSE NoteOff,
                            mMessage.channel, note, velocity)>>
    /\ (Begun /\ mPendingMessageIndex = 0) =>
          \A channel \in {1, 6, 16}, note \in {127}, velocity \in {0, 1, 64} :
              LET first == Poll([Self EXCEPT !.rx = <<NoteOn + channel - 1, note, 0>>],
                                MIDI_CHANNEL_OMNI)
                  next  == Poll([first.state EXCEPT !.rx = <<note, velocity>>],
                                MIDI_CHANNEL_OMNI)
              IN  /\ first.reported = <<Voice(NoteOff, channel, note, 0)>>
                  /\ first.state.mRunningStatus_RX = NoteOn + channel - 1
                  /\ next.reported = <<Voice(IF velocity > 0 THEN NoteOn ELSE NoteOff,
                                             channel, note, velocity)>>

\* NoteOn 64 0 and the bare pair 64 0 after it have both been reported as
\* NoteOff
C34_Witness ==
    /\ NormalizedNoteOn
    /\ stream = <<NoteOn, 64, 0, 64, 0>>
    /\ rx = <<>>
    /\ Reported = <<Voice(NoteOff, 1, 64, 0), Voice(NoteOff, 1, 64, 0)>>

(***************************************************************************)
(* The bounds of the pending buffer                                        *)
(***************************************************************************)
\* C35: between parse calls the fill index is 0, 1 or 2; it is 0 exactly when
\* the expected length is 0; when it is above 0 the expected length is 2 or 3
\* and the fill index is smaller than it; and no parse has stored a byte
\* outside the three bytes of the pending buffer.
C35_PendingBufferBounds ==
    /\ mPendingMessageIndex \in 0..2
    /\ mPendingMessageIndex = 0 <=> mPendingMessageExpectedLength = 0
    /\ mPendingMessageIndex > 0 =>
          /\ mPendingMessageExpectedLength \in {2, 3}
          /\ mPendingMessageIndex < mPendingMessageExpectedLength
    /\ ~call.pendingOverrun

\* SongPosition and its first data byte are pending: the index has reached 2
\* of an expected 3
C35_Witness ==
    /\ call.op = "read"
    /\ call.consumed > 0
    /\ mPendingMessage[1] = SongPosition
    /\ mPendingMessageIndex = 2
    /\ mPendingMessageExpectedLength = 3

=============================================================================
